---- MODULE Spec2Model ----
(***************************************************************************)
(* A model of the openTree backend: the Dialogue orchestrator with its     *)
(* async worker (app/services/dialogue/main.py), the in-memory and durable *)
(* stores and event bus it runs on (app/common/persistence.py,             *)
(* app/common/event_bus.py) and the Graph merger                           *)
(* (app/services/graph/repository.py).                                     *)
(*                                                                         *)
(* Encoding of Python values:                                              *)
(*   - Optional[x] is a sequence: << >> is None, <<v>> is the value v.     *)
(*   - generated ids (new_id, uuid4) are fresh naturals.                   *)
(*   - the downstream services the pipeline calls over HTTP are external:  *)
(*     one pipeline run either returns a response or raises.               *)
(*   - a call on a Redis-backed store or bus either returns or raises;     *)
(*     the in-memory backends never raise.  A Redis job record expires     *)
(*     when its TTL has run out (JobExpires).                              *)
(*   - a canonical_name is the sequence of its characters, so that         *)
(*     strip() and lower() are computed; alias and turn-id strings are     *)
(*     ordered as Python orders str (by code point); a confidence is an    *)
(*     integer number of hundredths, and NaN (a float the schema takes)    *)
(*     is a value of its own that compares False with every number.        *)
(*   - a dict is the sequence of its entries in insertion order.           *)
(***************************************************************************)
EXTENDS Integers, Sequences, FiniteSets, Bags, TLC

\* ------------------------------------------------------------------ bounds
\* how many requests that add a session or a turn the clients make in one run
MaxRequests == 3
\* how many calls on a Redis-backed store or bus raise during one run
MaxFaults == 1

\* ------------------------------------------------- input and outcome sets
Tenants == {"public", "other"}
Backends == {"memory", "redis"}
\* values of SESSION_STORE_BACKEND
SessionStoreBackends == {"memory", "postgres"}
\* values of ASYNC_RETRY_MAX_ATTEMPTS
RetrySettings == {0, 2}
\* str(exc) of what a pipeline run raises; str(RuntimeError()) is ""
ErrorTexts == {"", "transient"}
\* str(exc) of what a Redis call raises
RedisErrorText == "connection refused"
Responses == {"r1", "r2"}
Speakers == {"user"}
Contents == {"hello"}

\* ------------------------------------------------------ program constants
TURN_INGEST_TOPIC == "turn.ingested"
TURN_PROCESSED_TOPIC == "turn.processed"
TURN_DEAD_LETTER_TOPIC == "turn.dead_letter"
Topics == {TURN_INGEST_TOPIC, TURN_PROCESSED_TOPIC, TURN_DEAD_LETTER_TOPIC}
HistoryWindow == 12
ConsumeCount == 20

QUEUED == "queued"
PROCESSING == "processing"
COMPLETED == "completed"
FAILED == "failed"

None == << >>
Some(v) == <<v>>

VARIABLES
    \* settings (app/common/config.py), fixed when the process starts
    async_pipeline_enabled, async_retry_max_attempts,
    event_bus_backend, job_store_backend, session_store_backend,
    \* the wall clock, the latest value read from it (0: not read yet), and the bag of
    \* the add_turn_async requests between two of their calls
    clock, creating,
    \* the response to the latest GET /v1/pipeline/jobs/{job_id}, with the caller
    \* and the job id asked for (read by the properties only)
    job_response,
    \* the process: started by uvicorn, worker thread
    started,
    \* SESSION_STORE, JOB_STORE, EVENT_BUS
    sessions, turns, jobs, topics, published, faults,
    \* the worker thread: its position and the locals of _consume_turn_events
    \* and _handle_turn_event
    worker_pc, messages, msg_index, job, attempt, last_error, result,
    \* history of the run, read by the properties only: the pipeline outcomes
    \* of the current _handle_turn_event call (kept until the next call or the
    \* ack), its message and how it ended, and the message ids Consume
    \* returned and Ack was given
    attempt_log, handling, consumed, acked,
    \* the graph service: the repository class that build_graph_repository
    \* returned ("memory" also when the Neo4j one could not be built), the dicts of GRAPH_REPOSITORY
    \* when it is a MemoryGraphRepository, and the Neo4j database that a
    \* Neo4jElasticsearchRepository writes to
    graph_backend, concepts_by_scope, relations_by_scope, neo4j,
    \* history of the graph service: the response of the latest upsert, and
    \* the accepted upserts in order, each with the repository it was applied to
    response, upsert_log, upsert_threads,
    \* WORKER_STOP; the Consume calls the worker has started since the flag
    \* was last set (read by the properties only); on_shutdown is waiting in
    \* WORKER_THREAD.join; the number of on_startup calls so far
    worker_stop, stop_polls, joining, starts,
    \* the bag of the POST /v1/sessions/{id}/turns requests, in progress or
    \* ended, each with the calls it has made, and the response to the latest
    \* GET of the turns or the context path (read by the properties only)
    sync, read_response,
    \* the suggestion service and the tenant dependency: the one call made, with
    \* its request and its response (None: not called yet)
    suggestion_call, auth_call,
    \* the parser service: session_concept_memory of its HeuristicParserBackend,
    \* the parse_turn calls with the statement each is at, and the calls that
    \* have returned with their responses (read by the properties only)
    session_concept_memory, parse_calls, parse_log,
    \* the GET /v1/graph/{session_id} call that is between the two reads of
    \* get_snapshot, with the scope and the concepts it has read (None: no call
    \* is), and the GraphSnapshot that the caller of the latest call holds: the
    \* scope and the objects its lists refer to, with the value it had when the
    \* call returned and whether an upsert was under way then (None: no call
    \* made, or the latest was answered 404)
    snapshot_call, held_snapshot,
    \* RedisStreamEventBus: _group_ready of the process, the consumer groups of
    \* the Redis server with their last delivered entry, and the entries that
    \* consume calls have returned (read by the properties only)
    _group_ready, stream_groups, delivered

settingVars == <<async_pipeline_enabled, async_retry_max_attempts,
                 event_bus_backend, job_store_backend, session_store_backend>>
shutdownVars == <<worker_stop, stop_polls, joining, starts>>
syncVars == <<sync, read_response>>
serviceVars == <<suggestion_call, auth_call>>
\* what the asynchronous requests and the steps of a running worker leave alone
parserVars == <<session_concept_memory, parse_calls, parse_log>>
streamVars == <<_group_ready, stream_groups, delivered>>
snapshotVars == <<snapshot_call, held_snapshot>>
componentVars == <<parserVars, snapshotVars, streamVars>>
hostVars == <<settingVars, shutdownVars, syncVars, serviceVars, componentVars>>
requestVars == <<clock, creating, job_response>>
storeVars == <<sessions, turns, jobs, topics, published>>
workerVars == <<worker_pc, messages, msg_index, job, attempt, last_error, result>>
historyVars == <<attempt_log, handling, consumed, acked>>
dialogueVars == <<hostVars, requestVars, started, storeVars, faults, workerVars, historyVars>>
graphVars == <<graph_backend, concepts_by_scope, relations_by_scope, neo4j, response, upsert_log, upsert_threads>>

\* --------------------------------------------------------------- helpers
Max(a, b) == IF a >= b THEN a ELSE b
Min(a, b) == IF a <= b THEN a ELSE b
Range(seq) == {seq[i] : i \in 1..Len(seq)}

\* seq[-n:]
LastN(seq, n) == SubSeq(seq, Max(1, Len(seq) - n + 1), Len(seq))

_scope_key(tenant_id, session_id) == tenant_id \o ":" \o session_id

\* new_id("sess"): the n-th generated session id
SessionId(n) == <<"sess_1", "sess_2", "sess_3", "sess_4", "sess_5", "sess_6">>[n]
SessionIds == {SessionId(n) : n \in 1..MaxRequests}

\* a call on the Redis job store / the Redis stream bus raises
StoreRaises ==
    /\ job_store_backend = "redis"
    /\ faults < MaxFaults
    /\ faults' = faults + 1

BusRaises ==
    /\ event_bus_backend = "redis"
    /\ faults < MaxFaults
    /\ faults' = faults + 1

\* EventBus.publish: append an envelope with a fresh message id (uuid4().hex,
\* the stream entry id): the topic and the count of messages published on it
publish(topic, payload, key) ==
    /\ topics' = [topics EXCEPT ![topic] =
                     Append(@, [message_id |-> <<topic, published[topic] + 1>>,
                                topic |-> topic, key |-> key, payload |-> payload])]
    /\ published' = [published EXCEPT ![topic] = @ + 1]

\* a consume that pops from the right end of the deque, the newest message
\* first: what popleft excludes
consume_newest(queue, count) ==
    [i \in 1..Min(count, Len(queue)) |-> queue[Len(queue) + 1 - i]]

\* InMemoryEventBus.consume: min(count, len(queue)) times out.append(queue.popleft())
consume(queue, count) == SubSeq(queue, 1, Min(count, Len(queue)))

\* a deque that consume leaves as it is: what popping the messages excludes
not_popped(queue, out) == queue

\* the deque after the messages of out were popped
popped(queue, out) == SelectSeq(queue, LAMBDA m : m \notin Range(out))

\* a job store that drops what it is given: what creating the job before the
\* publish excludes
job_not_stored(store, j) == store

\* JobStore.create_job / upsert_job: the record stored under job.job_id
upsert_job(store, j) ==
    IF j.job_id \in DOMAIN store THEN [store EXCEPT ![j.job_id] = j]
    ELSE store @@ (j.job_id :> j)

\* ------------------------------------------------------------------ Init
DialogueInit ==
    /\ async_pipeline_enabled \in BOOLEAN
    /\ async_retry_max_attempts \in RetrySettings
    /\ event_bus_backend \in Backends
    /\ job_store_backend \in Backends
    /\ session_store_backend \in SessionStoreBackends
    /\ clock = 0
    /\ creating = EmptyBag
    /\ job_response = None
    /\ started = FALSE
    /\ sessions = {}
    /\ turns = << >>
    /\ jobs = << >>
    /\ topics = [t \in Topics |-> << >>]
    /\ published = [t \in Topics |-> 0]
    /\ faults = 0
    /\ worker_pc = "none"
    /\ messages = << >>
    /\ msg_index = 0
    /\ job = None
    /\ attempt = 0
    /\ last_error = ""
    /\ result = None
    /\ attempt_log = << >>
    /\ handling = [message |-> None, state |-> "none"]
    /\ consumed = << >>
    /\ acked = << >>
    /\ worker_stop = FALSE
    /\ stop_polls = 0
    /\ joining = FALSE
    /\ starts = 0
    /\ sync = EmptyBag
    /\ read_response = None
    /\ suggestion_call = None
    /\ auth_call = None
    /\ session_concept_memory = << >>
    /\ parse_calls = << >>
    /\ parse_log = << >>
    /\ snapshot_call = None
    /\ held_snapshot = None
    /\ _group_ready = {}
    /\ stream_groups = << >>
    /\ delivered = {}

\* ------------------------------------------------------- HTTP operations
\* on_startup: start the worker thread when the async pipeline is enabled
Startup ==
    /\ ~started
    /\ started' = TRUE
    /\ worker_pc' = IF async_pipeline_enabled THEN "poll" ELSE "none"
    /\ UNCHANGED <<faults, hostVars, requestVars, storeVars, messages, msg_index, job, attempt,
                   last_error, result, historyVars, graphVars>>

\* SESSION_STORE.get_session: the memory store looks the scope key up, the
\* Postgres store selects WHERE tenant_id = %s AND session_id = %s
get_session(tenant, session_id) ==
    {session \in sessions :
        IF session_store_backend = "postgres"
        THEN session.tenant_id = tenant /\ session.session_id = session_id
        ELSE _scope_key(session.tenant_id, session.session_id) = _scope_key(tenant, session_id)}

\* _require_session: FALSE is the 404 it raises
_require_session(tenant, session_id) == get_session(tenant, session_id) # {}

\* ORDER BY created_at ASC, turn_id ASC
RowBefore(a, b) ==
    a.created_at < b.created_at \/ (a.created_at = b.created_at /\ a.turn_id < b.turn_id)
RECURSIVE InsertRow(_, _)
InsertRow(sorted, row) ==
    IF sorted = << >> THEN <<row>>
    ELSE IF RowBefore(row, Head(sorted)) THEN <<row>> \o sorted
    ELSE <<Head(sorted)>> \o InsertRow(Tail(sorted), row)
RECURSIVE OrderRows(_)
OrderRows(rows) ==
    IF rows = << >> THEN << >> ELSE InsertRow(OrderRows(Tail(rows)), Head(rows))

\* SESSION_STORE.list_turns: the memory store returns the list of the scope
\* key; the Postgres store the rows WHERE tenant_id = %s AND session_id = %s in
\* the order of the query (the rows of the table are held by scope key here
\* too, two scopes whose keys are the same text side by side)
list_turns(tenant, session_id) ==
    LET rows == IF _scope_key(tenant, session_id) \in DOMAIN turns
                THEN turns[_scope_key(tenant, session_id)] ELSE << >>
    IN IF session_store_backend = "postgres"
       THEN OrderRows(SelectSeq(rows, LAMBDA row : row.tenant_id = tenant /\ row.session_id = session_id))
       ELSE rows

NumTurns == LET RECURSIVE Sum(_)
                Sum(S) == IF S = {} THEN 0
                          ELSE LET k == CHOOSE k \in S : TRUE
                               IN Len(turns[k]) + Sum(S \ {k})
            IN Sum(DOMAIN turns)

\* the requests in progress are bags: two requests of one thread pool may be
\* equal in all they hold
Put(bag, r) == bag (+) SetToBag({r})
Take(bag, r) == bag (-) SetToBag({r})

\* the requests accepted that have not made their turn yet
Waiting == BagCardinality([r \in {x \in BagToSet(creating) : x.pc = "turn"} |-> creating[r]]) + BagCardinality([r \in {x \in BagToSet(sync) : x.stage = "turn"} |-> sync[r]])

\* the synchronous requests answered 404
NotFound == BagCardinality([r \in {x \in BagToSet(sync) : x.status_code = 404} |-> sync[r]])

\* the asynchronous requests answered 409 or 404
RejectedAsync == BagCardinality([r \in {x \in BagToSet(creating) : x.pc = "raised"} |-> creating[r]])

\* the turn ids in use: those of the stored turns and of the turns that the
\* requests in progress have made
UsedTurnIds ==
    UNION {{turn.turn_id : turn \in Range(turns[scope])} : scope \in DOMAIN turns}
    \cup {request.turn[1].turn_id : request \in {x \in BagToSet(creating) : x.turn # None}}
    \cup {r.turn[1].turn_id : r \in {x \in BagToSet(sync) : x.turn # None}}

\* new_id("turn") is uuid4().hex: an id that no turn has, and in no order with
\* the ids given before. A turn needs a session, so that the requests make
\* fewer turns than MaxRequests.
TurnIds == 1..(MaxRequests - 1)
FreshTurnIds == TurnIds \ UsedTurnIds

\* utc_now() reads the wall clock: the value of the reading before, when two
\* readings fall into one tick of the clock, or a later one
ClockReadings == IF clock = 0 THEN {1} ELSE {clock, clock + 1}

\* payload.parent_turn_id: none, or a turn id that the client names, whether
\* or not a turn has it
ParentTurnIds == {None, Some(1)}

\* the sessions created, the turns made or to be made and the requests on
\* record that were rejected stay within the bound
RequestsLeft == Cardinality(sessions) + Cardinality(UsedTurnIds) + Waiting + NotFound + RejectedAsync < MaxRequests

\* POST /v1/sessions
CreateSession(tenant) ==
    /\ started
    /\ RequestsLeft
    /\ sessions' = sessions \cup
          {[tenant_id |-> tenant, session_id |-> SessionId(Cardinality(sessions) + 1)]}
    /\ UNCHANGED <<faults, hostVars, requestVars, started, turns, jobs, topics, published,
                   workerVars, historyVars, graphVars>>

\* the primary key of dialogue_turns
SameRow(a, b) ==
    a.tenant_id = b.tenant_id /\ a.session_id = b.session_id /\ a.turn_id = b.turn_id

\* SESSION_STORE.append_turn: rows.append(...) in the memory store; in the
\* Postgres store INSERT ... ON CONFLICT (tenant_id, session_id, turn_id) DO
\* UPDATE, which replaces the row of the same turn id
append_turn(turn) ==
    LET scope == _scope_key(turn.tenant_id, turn.session_id)
    IN IF scope \notin DOMAIN turns THEN turns @@ (scope :> <<turn>>)
       ELSE IF /\ session_store_backend = "postgres"
               /\ \E i \in 1..Len(turns[scope]) : SameRow(turns[scope][i], turn)
       THEN [turns EXCEPT ![scope] =
                [i \in 1..Len(@) |-> IF SameRow(@[i], turn) THEN turn ELSE @[i]]]
       ELSE [turns EXCEPT ![scope] = Append(@, turn)]

\* a check that never answers 409: what the check of the setting excludes
never_conflict(enabled) == FALSE

\* if not settings.async_pipeline_enabled: raise HTTPException(status_code=409)
async_disabled_conflict(enabled) == ~enabled

\* turn = Turn(tenant_id=..., session_id=..., speaker=payload.speaker,
\* content=payload.content, parent_turn_id=payload.parent_turn_id), with the
\* defaults turn_id = new_id("turn") and created_at = utc_now()
NewTurn(tenant, session_id, speaker, content, parent_turn_id, turn_id, now) ==
    [turn_id |-> turn_id, tenant_id |-> tenant, session_id |-> session_id,
     speaker |-> speaker, content |-> content, parent_turn_id |-> parent_turn_id,
     created_at |-> now]

\* POST /v1/sessions/{id}/turns/async. add_turn_async makes its calls one after
\* another and holds no lock between them, and the server runs the requests in
\* a thread pool: a request that has made a call is kept in `creating` with the
\* call it makes next (pc), what it was sent, the history it read (listed is
\* what _materialize_turns returned, for the properties), its turn once it is
\* made and the job id once the job is created. A request that an
\* HTTPException ended stays on record with the status of its response.
Advance(request, next) == creating' = Put(Take(creating, request), next)

\* add_turn_async up to the history: the check of the setting,
\* _require_session and _materialize_turns(...)[-12:]. The two reads are one
\* step: no request removes a session, so the session found by the first read
\* is found at the second.
AddTurnAsync(tenant, session_id, speaker, content, parent_turn_id) ==
    /\ started
    /\ ~async_disabled_conflict(async_pipeline_enabled)
    /\ _require_session(tenant, session_id)
    /\ RequestsLeft
    /\ creating' = Put(creating,
          [pc |-> "turn", tenant_id |-> tenant, session_id |-> session_id,
           speaker |-> speaker, content |-> content, parent_turn_id |-> parent_turn_id,
           listed |-> list_turns(tenant, session_id),
           history |-> LastN(list_turns(tenant, session_id), HistoryWindow),
           turn |-> None, job_id |-> None, status_code |-> 0])
    /\ UNCHANGED <<faults, hostVars, clock, job_response, started, storeVars, workerVars,
                   historyVars, graphVars>>

\* the request that add_turn_async ends with an HTTPException before it reads
\* or stores a turn
rejected_request(tenant, session_id, speaker, content, status_code) ==
    [pc |-> "raised", tenant_id |-> tenant, session_id |-> session_id,
     speaker |-> speaker, content |-> content, parent_turn_id |-> None,
     listed |-> << >>, history |-> << >>,
     turn |-> None, job_id |-> None, status_code |-> status_code]

\* if not settings.async_pipeline_enabled: raise HTTPException(status_code=409),
\* the first statement of add_turn_async, before the session is looked up
AddTurnAsyncConflict(tenant, session_id, speaker, content) ==
    /\ started
    /\ async_disabled_conflict(async_pipeline_enabled)
    /\ RequestsLeft
    /\ creating' = Put(creating, rejected_request(tenant, session_id, speaker, content, 409))
    /\ UNCHANGED <<faults, hostVars, clock, job_response, started, storeVars, workerVars,
                   historyVars, graphVars>>

\* 404 of _require_session, with the async pipeline enabled
AddTurnAsyncRejected(tenant, session_id, speaker, content) ==
    /\ started
    /\ ~async_disabled_conflict(async_pipeline_enabled)
    /\ ~_require_session(tenant, session_id)
    /\ RequestsLeft
    /\ creating' = Put(creating, rejected_request(tenant, session_id, speaker, content, 404))
    /\ UNCHANGED <<faults, hostVars, clock, job_response, started, storeVars, workerVars,
                   historyVars, graphVars>>

\* turn = Turn(...): the turn id and the reading of the clock
AddTurnAsyncTurn(request, turn_id, now) ==
    /\ request.pc = "turn"
    /\ turn_id \in FreshTurnIds
    /\ now \in ClockReadings
    /\ Advance(request, [request EXCEPT !.pc = "store",
                            !.turn = Some(NewTurn(request.tenant_id, request.session_id,
                                                  request.speaker, request.content,
                                                  request.parent_turn_id, turn_id, now))])
    /\ clock' = now
    /\ UNCHANGED <<faults, hostVars, job_response, started, storeVars, workerVars,
                   historyVars, graphVars>>

\* _store_turn(turn)
AddTurnAsyncStore(request) ==
    /\ request.pc = "store"
    /\ turns' = append_turn(request.turn[1])
    /\ Advance(request, [request EXCEPT !.pc = "create_job"])
    /\ UNCHANGED <<faults, hostVars, clock, job_response, started, sessions, jobs, topics,
                   published, workerVars, historyVars, graphVars>>

\* job_id = new_id("job"), an id that no other job has or had (written as the
\* id of the request's turn); JOB_STORE.create_job(job) with status queued
AddTurnAsyncCreateJob(request) ==
    /\ request.pc = "create_job"
    /\ LET job_id == request.turn[1].turn_id
       IN /\ jobs' = upsert_job(jobs, [job_id |-> job_id, tenant_id |-> request.tenant_id,
                                       session_id |-> request.session_id,
                                       turn_id |-> request.turn[1].turn_id, status |-> QUEUED,
                                       result |-> None, error |-> None])
          /\ Advance(request, [request EXCEPT !.pc = "publish", !.job_id = Some(job_id)])
    /\ UNCHANGED <<faults, hostVars, clock, job_response, started, sessions, turns, topics,
                   published, workerVars, historyVars, graphVars>>

\* the turn is stored, then JOB_STORE.create_job raises (500): no job, nothing
\* published
AddTurnAsyncCreateJobRaises(request) ==
    /\ request.pc = "create_job"
    /\ StoreRaises
    /\ creating' = Take(creating, request)
    /\ UNCHANGED <<hostVars, clock, job_response, started, storeVars, workerVars, historyVars,
                   graphVars>>

\* EVENT_BUS.publish(TURN_INGEST_TOPIC, {...}, key=turn.turn_id) and the return
AddTurnAsyncPublish(request) ==
    /\ request.pc = "publish"
    /\ publish(TURN_INGEST_TOPIC,
               [job_id |-> request.job_id[1], tenant_id |-> request.tenant_id,
                session_id |-> request.session_id, turn |-> request.turn[1],
                history |-> request.history],
               Some(request.turn[1].turn_id))
    /\ creating' = Take(creating, request)
    /\ UNCHANGED <<faults, hostVars, clock, job_response, started, sessions, turns, jobs,
                   workerVars, historyVars, graphVars>>

\* the turn and the job are stored, then EVENT_BUS.publish raises (500)
AddTurnAsyncPublishRaises(request) ==
    /\ request.pc = "publish"
    /\ BusRaises
    /\ creating' = Take(creating, request)
    /\ UNCHANGED <<hostVars, clock, job_response, started, storeVars, workerVars, historyVars,
                   graphVars>>

\* the calls of the requests in progress, with stores and a bus that answer
AddTurnAsyncNext ==
    \/ \E request \in BagToSet(creating), turn_id \in TurnIds, now \in ClockReadings :
          AddTurnAsyncTurn(request, turn_id, now)
    \/ \E request \in BagToSet(creating) : AddTurnAsyncStore(request)
    \/ \E request \in BagToSet(creating) : AddTurnAsyncCreateJob(request)
    \/ \E request \in BagToSet(creating) : AddTurnAsyncPublish(request)

\* the inputs of the specifications of the worker, the job store, the bus and
\* the pipeline calls, which pass a turn, its id and its timestamp on as they
\* are given and put no two of them in an order: the turns without a parent,
\* each with the least unused id and a later reading of the clock; so do
\* SyncSpec and IsolationSpec, whose properties read the scope a turn is
\* stored under. TurnSpec, on the order of the stored turns, takes every
\* parent, id and reading.
NoParentTurnId == {None}
LeastFreshTurnId == CHOOSE turn_id \in FreshTurnIds : \A other \in FreshTurnIds : turn_id <= other

AddTurnAsyncInOrder ==
    \/ \E request \in BagToSet(creating) :
          AddTurnAsyncTurn(request, LeastFreshTurnId, clock + 1)
    \/ \E request \in BagToSet(creating) : AddTurnAsyncStore(request)
    \/ \E request \in BagToSet(creating) : AddTurnAsyncCreateJob(request)
    \/ \E request \in BagToSet(creating) : AddTurnAsyncPublish(request)

\* ensure_tenant_access: FALSE is the 403 it raises
ensure_tenant_access(expected_tenant_id, tenant_id) == expected_tenant_id = tenant_id

\* RedisJobStore writes a job with set(key, payload, ex=ttl_seconds): the
\* Redis server removes the record when that time has passed since the last
\* write. The memory store keeps its jobs.
JobExpires(job_id) ==
    /\ job_store_backend = "redis"
    /\ job_id \in DOMAIN jobs
    /\ jobs' = [j \in DOMAIN jobs \ {job_id} |-> jobs[j]]
    /\ UNCHANGED <<faults, hostVars, requestVars, started, sessions, turns, topics, published,
                   workerVars, historyVars, graphVars>>

\* JOB_STORE.get_job(job_id): the job stored under the id, None when there is
\* none or the record has expired
get_job(store, job_id) == IF job_id \in DOMAIN store THEN Some(store[job_id]) ELSE None

\* get_pipeline_job: the status code and the body of the response
get_pipeline_job(store, job_id, tenant) ==
    LET found == get_job(store, job_id)
    IN IF found = None THEN [status_code |-> 404, body |-> None]
       ELSE IF ~ensure_tenant_access(found[1].tenant_id, tenant)
       THEN [status_code |-> 403, body |-> None]
       ELSE [status_code |-> 200, body |-> found]

\* the job ids a client asks for: the ids of the jobs the bounds allow
JobIds == 1..MaxRequests

\* GET /v1/pipeline/jobs/{job_id}
GetJob(tenant, job_id) ==
    /\ started
    /\ LET answer == get_pipeline_job(jobs, job_id, tenant)
       IN job_response' = Some([tenant_id |-> tenant, job_id |-> job_id,
                                status_code |-> answer.status_code, body |-> answer.body])
    /\ UNCHANGED <<faults, hostVars, clock, creating, started, storeVars, workerVars,
                   historyVars, graphVars>>

\* the Redis call of JOB_STORE.get_job raises: the handler ends with a 500
GetJobRaises(tenant, job_id) ==
    /\ started
    /\ StoreRaises
    /\ job_response' = Some([tenant_id |-> tenant, job_id |-> job_id,
                             status_code |-> 500, body |-> None])
    /\ UNCHANGED <<hostVars, clock, creating, started, storeVars, workerVars,
                   historyVars, graphVars>>

\* ------------------------------------------- the synchronous turn handler
\* the downstream calls of _run_pipeline, in the order it makes them
Stages == <<"parser", "graph", "suggestion">>

\* the stage after a call that returned: the next call, or the publish of
\* turn.processed in add_turn
stage_after(stage) ==
    CASE stage = "parser" -> "graph"
      [] stage = "graph" -> "suggestion"
      [] stage = "suggestion" -> "publish"

\* response.raise_for_status() raises: the exception leaves _run_pipeline and
\* add_turn, and the request ends
stage_after_raise(stage) == "raised"

\* what a step of the synchronous handler and a GET of the turns leave alone
unchangedBySync == UNCHANGED <<faults, settingVars, componentVars, shutdownVars, serviceVars, creating, job_response, started, sessions, jobs, workerVars, historyVars, graphVars>>

\* POST /v1/sessions/{id}/turns. add_turn makes its calls one after another
\* and holds no lock between them, and the server runs the requests in a
\* thread pool: each request is a record of `sync`, in progress or ended, with
\* the call it makes next (stage), what _materialize_turns returned (listed),
\* the number of calls made to each stage, the requests sent (sent) and the
\* stage whose call raised (failed) for the properties.
SyncAdvance(r, next) == sync' = Put(Take(sync, r), next)

\* add_turn up to the history: _require_session and
\* _materialize_turns(...)[-12:], one step as in AddTurnAsync
AddTurnSync(tenant, session_id, speaker, content, parent_turn_id) ==
    /\ started
    /\ _require_session(tenant, session_id)
    /\ RequestsLeft
    /\ sync' = Put(sync,
          [tenant_id |-> tenant, session_id |-> session_id,
           speaker |-> speaker, content |-> content, parent_turn_id |-> parent_turn_id,
           turn |-> None,
           history |-> LastN(list_turns(tenant, session_id), HistoryWindow),
           listed |-> list_turns(tenant, session_id),
           stage |-> "turn",
           calls |-> [s \in Range(Stages) |-> 0],
           sent |-> << >>, parse_result |-> None,
           failed |-> None, status_code |-> 0])
    /\ UNCHANGED <<clock, turns, topics, published, read_response>>
    /\ unchangedBySync

\* turn = Turn(...): the turn id and the reading of the clock
AddTurnSyncTurn(r, turn_id, now) ==
    /\ r.stage = "turn"
    /\ turn_id \in FreshTurnIds
    /\ now \in ClockReadings
    /\ SyncAdvance(r, [r EXCEPT !.stage = "store",
                          !.turn = Some(NewTurn(r.tenant_id, r.session_id, r.speaker, r.content,
                                                r.parent_turn_id, turn_id, now))])
    /\ clock' = now
    /\ UNCHANGED <<turns, topics, published, read_response>>
    /\ unchangedBySync

\* _store_turn(turn); the pipeline follows call by call
AddTurnSyncStore(r) ==
    /\ r.stage = "store"
    /\ turns' = append_turn(r.turn[1])
    /\ SyncAdvance(r, [r EXCEPT !.stage = Stages[1]])
    /\ UNCHANGED <<clock, topics, published, read_response>>
    /\ unchangedBySync

\* 404 of _require_session: the handler ends before it reads or stores a turn
AddTurnSyncRejected(tenant, session_id, speaker, content) ==
    /\ started
    /\ ~_require_session(tenant, session_id)
    /\ RequestsLeft
    /\ sync' = Put(sync,
          [tenant_id |-> tenant, session_id |-> session_id,
           speaker |-> speaker, content |-> content, parent_turn_id |-> None,
           turn |-> None, history |-> << >>, listed |-> << >>,
           stage |-> "raised",
           calls |-> [s \in Range(Stages) |-> 0],
           sent |-> << >>, parse_result |-> None,
           failed |-> None, status_code |-> 404])
    /\ UNCHANGED <<clock, turns, topics, published, read_response>>
    /\ unchangedBySync

\* what the parser extracts from a turn, the items by their ids
ParseResults ==
    {[concepts |-> <<"n1", "n2">>, relations |-> <<"e1">>, knowledge_gaps |-> <<"gap_1">>],
     [concepts |-> <<"n3">>, relations |-> << >>, knowledge_gaps |-> << >>]}

\* ParseTurnResponse(...) of the parser service: the tenant, the session id and
\* the turn id of the request it was sent, with what it extracted
ParseTurnResponse(payload, parsed) ==
    [tenant_id |-> payload.tenant_id, session_id |-> payload.session_id,
     turn_id |-> payload.turn.turn_id, concepts |-> parsed.concepts,
     relations |-> parsed.relations, knowledge_gaps |-> parsed.knowledge_gaps]

\* a graph request that leaves the extraction out: what passing the parse
\* result on excludes
empty_graph_request(tenant, parse_result) == [tenant_id |-> tenant, session_id |-> parse_result.session_id, concepts |-> << >>, relations |-> << >>]

\* GraphUpsertRequest(...) in _call_graph: the session id is the one of the
\* parse result
graph_request(tenant, parse_result) == [tenant_id |-> tenant, session_id |-> parse_result.session_id, concepts |-> parse_result.concepts, relations |-> parse_result.relations]

\* SuggestionRequest(...) in _call_suggestion
suggestion_request(tenant, session_id, parse_result) == [tenant_id |-> tenant, session_id |-> session_id, knowledge_gaps |-> parse_result.knowledge_gaps]

\* the request a stage is sent
stage_request(r) ==
    CASE r.stage = "parser" -> [tenant_id |-> r.tenant_id, session_id |-> r.session_id,
                                turn |-> r.turn[1], history |-> r.history]
      [] r.stage = "graph" -> graph_request(r.tenant_id, r.parse_result[1])
      [] r.stage = "suggestion" -> suggestion_request(r.tenant_id, r.session_id, r.parse_result[1])

\* _call_parser, _call_graph, _call_suggestion: one HTTP call, which returns
\* or raises (non-2xx, timeout, a body that fails validation); parsed is what
\* the parser answers when it is the parser that returns
CallStage(r, ok, parsed) ==
    /\ r.stage \in Range(Stages)
    /\ SyncAdvance(r, [r EXCEPT
                          !.calls[r.stage] = @ + 1,
                          !.sent = Append(@, [stage |-> r.stage, request |-> stage_request(r)]),
                          !.parse_result = IF ok /\ r.stage = "parser"
                                           THEN Some(ParseTurnResponse(stage_request(r), parsed))
                                           ELSE @,
                          !.stage = IF ok THEN stage_after(@) ELSE stage_after_raise(@),
                          !.failed = IF ok THEN @ ELSE Some(r.stage),
                          !.status_code = IF ok THEN @ ELSE 500])
    /\ UNCHANGED <<clock, turns, topics, published, read_response>>
    /\ unchangedBySync

\* EVENT_BUS.publish(TURN_PROCESSED_TOPIC, ...) and return response
SyncPublishProcessed(r) ==
    /\ r.stage = "publish"
    /\ publish(TURN_PROCESSED_TOPIC,
               [tenant_id |-> r.tenant_id, session_id |-> r.session_id,
                turn_id |-> r.turn[1].turn_id, status |-> COMPLETED], None)
    /\ SyncAdvance(r, [r EXCEPT !.stage = "returned", !.status_code = 200])
    /\ UNCHANGED <<clock, turns, read_response>>
    /\ unchangedBySync

\* EVENT_BUS.publish(TURN_PROCESSED_TOPIC, ...) raises on the Redis bus: the
\* exception leaves add_turn after the pipeline has run
SyncPublishProcessedRaises(r) ==
    /\ r.stage = "publish"
    /\ BusRaises
    /\ SyncAdvance(r, [r EXCEPT !.stage = "raised", !.status_code = 500])
    /\ UNCHANGED <<clock, turns, topics, published, read_response>>
    /\ UNCHANGED <<settingVars, componentVars, shutdownVars, serviceVars, creating, job_response, started, sessions, jobs, workerVars, historyVars, graphVars>>

\* the calls of the synchronous requests in progress, with services and a bus
\* that answer or, the services, fail
AddTurnSyncNext ==
    \/ \E r \in BagToSet(sync), turn_id \in TurnIds, now \in ClockReadings :
          AddTurnSyncTurn(r, turn_id, now)
    \/ \E r \in BagToSet(sync) : AddTurnSyncStore(r)
    \/ \E r \in BagToSet(sync), ok \in BOOLEAN, parsed \in ParseResults : CallStage(r, ok, parsed)
    \/ \E r \in BagToSet(sync) : SyncPublishProcessed(r)

\* the same calls with the turn ids and the readings of AddTurnAsyncInOrder
AddTurnSyncInOrder ==
    \/ \E r \in BagToSet(sync) : AddTurnSyncTurn(r, LeastFreshTurnId, clock + 1)
    \/ \E r \in BagToSet(sync) : AddTurnSyncStore(r)
    \/ \E r \in BagToSet(sync), ok \in BOOLEAN, parsed \in ParseResults : CallStage(r, ok, parsed)
    \/ \E r \in BagToSet(sync) : SyncPublishProcessed(r)

\* GET /v1/sessions/{id}/turns: 404 of _require_session, or the turns of
\* _materialize_turns
ListTurns(tenant, session_id) ==
    /\ started
    /\ read_response' =
          Some([op |-> "list_turns", tenant_id |-> tenant, session_id |-> session_id,
                status_code |-> IF _require_session(tenant, session_id) THEN 200 ELSE 404,
                body |-> IF _require_session(tenant, session_id)
                         THEN list_turns(tenant, session_id) ELSE << >>])
    /\ UNCHANGED <<clock, turns, topics, published, sync>>
    /\ unchangedBySync

\* one entry of the context path
path_entry(turn) ==
    [turn_id |-> turn.turn_id, speaker |-> turn.speaker, parent_turn_id |-> turn.parent_turn_id]

\* GET /v1/sessions/{id}/context-path
GetContextPath(tenant, session_id) ==
    /\ started
    /\ read_response' =
          Some([op |-> "context_path", tenant_id |-> tenant, session_id |-> session_id,
                status_code |-> IF _require_session(tenant, session_id) THEN 200 ELSE 404,
                body |-> IF _require_session(tenant, session_id)
                         THEN [i \in 1..Len(list_turns(tenant, session_id)) |->
                                  path_entry(list_turns(tenant, session_id)[i])]
                         ELSE << >>])
    /\ UNCHANGED <<clock, turns, topics, published, sync>>
    /\ unchangedBySync

\* ------------------------------------------------------ the async worker
\* max_attempts = max(settings.async_retry_max_attempts, 1)
MaxAttempts == Max(async_retry_max_attempts, 1)

CurrentMessage == messages[msg_index]
CurrentJobId == CurrentMessage.payload.job_id

LogAttempt(outcome) == attempt_log' = Append(attempt_log, outcome)

\* what a worker step leaves alone besides the worker's own variables
settingsUnchanged == UNCHANGED <<hostVars, requestVars, started, sessions, turns, graphVars>>

\* _handle_turn_event returns (its locals are gone): the next message of the
\* batch, or the ack after the last one
Return ==
    /\ job' = None
    /\ attempt' = 0
    /\ last_error' = ""
    /\ result' = None
    /\ handling' = [message |-> Some(CurrentMessage), state |-> "returned"]
    /\ IF msg_index < Len(messages)
       THEN /\ msg_index' = msg_index + 1
            /\ worker_pc' = "handle"
       ELSE /\ msg_index' = msg_index
            /\ worker_pc' = "ack"

\* an exception leaves _handle_turn_event and _consume_turn_events: the
\* worker thread ends
Die ==
    /\ worker_pc' = "dead"
    /\ job' = None
    /\ attempt' = 0
    /\ last_error' = ""
    /\ result' = None
    /\ messages' = << >>
    /\ msg_index' = 0
    /\ IF worker_pc \in {"handle", "write_failed", "publish_dead_letter"}
       THEN handling' = [message |-> Some(CurrentMessage), state |-> "raised"]
       ELSE UNCHANGED handling
    /\ attempt_log' = IF worker_pc = "handle" THEN << >> ELSE attempt_log
    /\ UNCHANGED <<consumed, acked>>

\* except Exception as exc: last_error = str(exc); the next attempt, or the
\* end of the for loop
Except(e) ==
    /\ last_error' = e
    /\ IF attempt < MaxAttempts
       THEN /\ attempt' = attempt + 1
            /\ worker_pc' = "attempt"
       ELSE /\ attempt' = attempt
            /\ worker_pc' = "write_failed"

\* xgroup_create(stream_name, consumer_group, id="$", mkstream=True): a new
\* group starts after the last entry the stream has; BUSYGROUP (the group
\* exists) is passed over
xgroup_create(groups, stream, key) ==
    IF key \in DOMAIN groups THEN groups ELSE groups @@ (key :> Len(stream))

\* _ensure_group: the groups of the server after the call
_ensure_group(groups, stream, key) ==
    IF key \in _group_ready THEN groups ELSE xgroup_create(groups, stream, key)

\* xreadgroup(streams={stream_name: ">"}, count=count): the entries after the
\* group's last delivered one, count at most
xreadgroup(stream, last_delivered, count) ==
    SubSeq(stream, last_delivered + 1, Min(Len(stream), last_delivered + count))

\* the worker's consumer group of the turn.ingested stream
\* (settings.event_bus_consumer_group)
WorkerGroup == <<TURN_INGEST_TOPIC, "dialogue-service">>

\* the worker takes a batch that is not empty
Received(out) ==
    IF out # << >>
    THEN /\ messages' = out
         /\ msg_index' = 1
         /\ worker_pc' = "handle"
         /\ consumed' = consumed \o [i \in 1..Len(out) |-> out[i].message_id]
    ELSE UNCHANGED <<messages, msg_index, worker_pc, consumed>>

\* RedisStreamEventBus.consume, its first call to the server: _ensure_group,
\* under the bus's lock, creates the group (or finds it) and notes the key in
\* _group_ready. The lock is released before the read, so a publish can come
\* between the two. Once the key is noted _ensure_group returns at once and
\* the call is the read alone.
WorkerEnsureGroup ==
    /\ worker_pc = "poll"
    /\ event_bus_backend = "redis"
    /\ WorkerGroup \notin _group_ready
    /\ stream_groups' = _ensure_group(stream_groups, topics[TURN_INGEST_TOPIC], WorkerGroup)
    /\ _group_ready' = _group_ready \cup {WorkerGroup}
    /\ UNCHANGED <<settingVars, shutdownVars, syncVars, serviceVars, parserVars, snapshotVars,
                   requestVars, started, sessions, turns, graphVars>>
    /\ UNCHANGED <<jobs, topics, published, faults, delivered, workerVars, historyVars>>

\* while not WORKER_STOP.is_set():
\*     messages = EVENT_BUS.consume(turn.ingested, count=20)
\* InMemoryEventBus pops up to count messages; RedisStreamEventBus, the group
\* made sure of, reads the entries after the group's last delivered one
\* (XREADGROUP), the stream keeps its entries. A call that returns nothing and
\* changes nothing is left out.
WorkerConsume ==
    /\ worker_pc = "poll"
    /\ IF event_bus_backend = "redis"
       THEN LET out == xreadgroup(topics[TURN_INGEST_TOPIC], stream_groups[WorkerGroup], ConsumeCount)
            IN /\ WorkerGroup \in _group_ready
               /\ out # << >>
               /\ stream_groups' = [stream_groups EXCEPT ![WorkerGroup] = @ + Len(out)]
               /\ UNCHANGED _group_ready
               /\ delivered' = delivered \cup
                     {<<WorkerGroup[2], out[i].message_id>> : i \in 1..Len(out)}
               /\ Received(out)
               /\ UNCHANGED topics
       ELSE LET out == consume(topics[TURN_INGEST_TOPIC], ConsumeCount)
            IN /\ out # << >>
               /\ topics' = [topics EXCEPT ![TURN_INGEST_TOPIC] = popped(@, out)]
               /\ Received(out)
               /\ UNCHANGED streamVars
    /\ UNCHANGED <<settingVars, shutdownVars, syncVars, serviceVars, parserVars, snapshotVars,
                   requestVars, started, sessions, turns, graphVars>>
    /\ UNCHANGED <<jobs, published, faults, job, attempt, last_error, result,
                   attempt_log, handling, acked>>

\* EVENT_BUS.consume raises: XGROUP CREATE (no group is made, the key is not
\* noted) or XREADGROUP (the group and the key of the call before it stay)
WorkerConsumeRaises ==
    /\ worker_pc = "poll"
    /\ BusRaises
    /\ Die
    /\ settingsUnchanged
    /\ UNCHANGED <<jobs, topics, published>>

\* job = JOB_STORE.get_job(job_id); if not job: return
\* JOB_STORE.upsert_job(job.model_copy(update={"status": PROCESSING}))
HandleBegin ==
    /\ worker_pc = "handle"
    /\ IF CurrentJobId \notin DOMAIN jobs
       THEN /\ Return
            /\ UNCHANGED jobs
       ELSE /\ job' = Some(jobs[CurrentJobId])
            /\ jobs' = upsert_job(jobs, [jobs[CurrentJobId] EXCEPT !.status = PROCESSING])
            /\ attempt' = 1
            /\ last_error' = ""
            /\ result' = None
            /\ worker_pc' = IF 1 <= MaxAttempts THEN "attempt" ELSE "write_failed"
            /\ handling' = [message |-> Some(CurrentMessage), state |-> "running"]
            /\ UNCHANGED msg_index
    /\ attempt_log' = << >>
    /\ settingsUnchanged
    /\ UNCHANGED <<topics, published, faults, messages, consumed, acked>>

HandleBeginRaises ==
    /\ worker_pc = "handle"
    /\ StoreRaises
    /\ Die
    /\ settingsUnchanged
    /\ UNCHANGED <<jobs, topics, published>>

\* result = _run_pipeline(...) returns
RunPipeline(r) ==
    /\ worker_pc = "attempt"
    /\ result' = Some([turn_id |-> CurrentMessage.payload.turn.turn_id, body |-> r])
    /\ LogAttempt(<<"ok", r>>)
    /\ worker_pc' = "write_completed"
    /\ settingsUnchanged
    /\ UNCHANGED <<jobs, topics, published, faults, messages, msg_index, job,
                   attempt, last_error, handling, consumed, acked>>

\* _run_pipeline raises
RunPipelineRaises(e) ==
    /\ worker_pc = "attempt"
    /\ LogAttempt(<<"raise", e>>)
    /\ Except(e)
    /\ settingsUnchanged
    /\ UNCHANGED <<jobs, topics, published, faults, messages, msg_index, job,
                   result, handling, consumed, acked>>

CompletedJob ==
    LET p == CurrentMessage.payload
    IN [job_id |-> p.job_id, tenant_id |-> p.tenant_id, session_id |-> p.session_id,
        turn_id |-> p.turn.turn_id, status |-> COMPLETED, result |-> result,
        error |-> None]

\* JOB_STORE.upsert_job(AsyncTurnJobResponse(status=COMPLETED, result=result))
WriteCompleted ==
    /\ worker_pc = "write_completed"
    /\ jobs' = upsert_job(jobs, CompletedJob)
    /\ worker_pc' = "publish_processed"
    /\ settingsUnchanged
    /\ UNCHANGED <<topics, published, faults, messages, msg_index, job, attempt,
                   last_error, result, historyVars>>

WriteCompletedRaises ==
    /\ worker_pc = "write_completed"
    /\ StoreRaises
    /\ Except(RedisErrorText)
    /\ settingsUnchanged
    /\ UNCHANGED <<jobs, topics, published, messages, msg_index, job, result,
                   historyVars>>

ProcessedPayload ==
    LET p == CurrentMessage.payload
    IN [job_id |-> p.job_id, tenant_id |-> p.tenant_id, session_id |-> p.session_id,
        turn_id |-> p.turn.turn_id, status |-> COMPLETED]

\* EVENT_BUS.publish(turn.processed, ...); return
PublishProcessed ==
    /\ worker_pc = "publish_processed"
    /\ publish(TURN_PROCESSED_TOPIC, ProcessedPayload,
               Some(CurrentMessage.payload.turn.turn_id))
    /\ Return
    /\ settingsUnchanged
    /\ UNCHANGED <<jobs, faults, messages, attempt_log, consumed, acked>>

PublishProcessedRaises ==
    /\ worker_pc = "publish_processed"
    /\ BusRaises
    /\ Except(RedisErrorText)
    /\ settingsUnchanged
    /\ UNCHANGED <<jobs, topics, published, messages, msg_index, job, result,
                   historyVars>>

\* failed_job = job.model_copy(update={"status": FAILED, "error": last_error})
FailedJob == [job[1] EXCEPT !.status = FAILED, !.error = Some(last_error)]

\* JOB_STORE.upsert_job(failed_job)
WriteFailed ==
    /\ worker_pc = "write_failed"
    /\ jobs' = upsert_job(jobs, FailedJob)
    /\ worker_pc' = "publish_dead_letter"
    /\ settingsUnchanged
    /\ UNCHANGED <<topics, published, faults, messages, msg_index, job, attempt,
                   last_error, result, historyVars>>

WriteFailedRaises ==
    /\ worker_pc = "write_failed"
    /\ StoreRaises
    /\ Die
    /\ settingsUnchanged
    /\ UNCHANGED <<jobs, topics, published>>

DeadLetterPayload ==
    [job_id |-> FailedJob.job_id, tenant_id |-> FailedJob.tenant_id,
     session_id |-> FailedJob.session_id, turn_id |-> FailedJob.turn_id,
     status |-> FailedJob.status, error |-> FailedJob.error,
     payload |-> CurrentMessage.payload]

\* EVENT_BUS.publish(turn.dead_letter, ...)
PublishDeadLetter ==
    /\ worker_pc = "publish_dead_letter"
    /\ publish(TURN_DEAD_LETTER_TOPIC, DeadLetterPayload, Some(FailedJob.turn_id))
    /\ Return
    /\ settingsUnchanged
    /\ UNCHANGED <<jobs, faults, messages, attempt_log, consumed, acked>>

PublishDeadLetterRaises ==
    /\ worker_pc = "publish_dead_letter"
    /\ BusRaises
    /\ Die
    /\ settingsUnchanged
    /\ UNCHANGED <<jobs, topics, published>>

\* EVENT_BUS.ack(turn.ingested, group, messages); back to the head of the
\* while loop, where the batch is dead
Ack ==
    /\ worker_pc = "ack"
    /\ acked' = acked \o [i \in 1..Len(messages) |-> messages[i].message_id]
    /\ worker_pc' = "poll"
    /\ messages' = << >>
    /\ msg_index' = 0
    /\ attempt_log' = << >>
    /\ handling' = [message |-> None, state |-> "none"]
    /\ settingsUnchanged
    /\ UNCHANGED <<jobs, topics, published, faults, job, attempt, last_error,
                   result, consumed>>

AckRaises ==
    /\ worker_pc = "ack"
    /\ BusRaises
    /\ Die
    /\ settingsUnchanged
    /\ UNCHANGED <<jobs, topics, published>>

WorkerNext ==
    \/ WorkerEnsureGroup
    \/ WorkerConsume
    \/ WorkerConsumeRaises
    \/ HandleBegin
    \/ HandleBeginRaises
    \/ \E r \in Responses : RunPipeline(r)
    \/ \E e \in ErrorTexts : RunPipelineRaises(e)
    \/ WriteCompleted
    \/ WriteCompletedRaises
    \/ PublishProcessed
    \/ PublishProcessedRaises
    \/ WriteFailed
    \/ WriteFailedRaises
    \/ PublishDeadLetter
    \/ PublishDeadLetterRaises
    \/ Ack
    \/ AckRaises

ClientNext ==
    \/ \E t \in Tenants : CreateSession(t)
    \/ \E t \in Tenants, s \in SessionIds, sp \in Speakers, c \in Contents,
          p \in NoParentTurnId :
          AddTurnAsync(t, s, sp, c, p)
    \/ AddTurnAsyncInOrder
    \/ \E request \in BagToSet(creating) : AddTurnAsyncCreateJobRaises(request)
    \/ \E request \in BagToSet(creating) : AddTurnAsyncPublishRaises(request)
    \/ \E t \in Tenants, s \in SessionIds, sp \in Speakers, c \in Contents :
          AddTurnAsyncConflict(t, s, sp, c)
    \/ \E t \in Tenants, s \in SessionIds, sp \in Speakers, c \in Contents :
          AddTurnAsyncRejected(t, s, sp, c)
    \/ \E t \in Tenants, s \in SessionIds, sp \in Speakers, c \in Contents,
          p \in NoParentTurnId :
          AddTurnSync(t, s, sp, c, p)
    \/ \E t \in Tenants, s \in SessionIds, sp \in Speakers, c \in Contents :
          AddTurnSyncRejected(t, s, sp, c)
    \/ AddTurnSyncInOrder
    \/ \E r \in BagToSet(sync) : SyncPublishProcessedRaises(r)

\* ------------------------------------------------- startup and shutdown
\* how many times the process runs its startup hook
MaxStarts == 2

\* WORKER_THREAD.is_alive(): the thread was started and its function has not
\* returned or raised
is_alive == worker_pc \notin {"none", "dead", "exited"}

\* a loop that goes on whatever the flag says: what the test of WORKER_STOP
\* excludes
loop_ignores_stop(stop) == TRUE

\* while not WORKER_STOP.is_set()
loop_continues(stop) == ~stop

unchangedByHook == UNCHANGED <<settingVars, componentVars, syncVars, serviceVars, requestVars, storeVars, faults, messages, msg_index, job, attempt, last_error, result, historyVars, graphVars>>

\* on_startup: _start_async_worker when the async pipeline is enabled, which
\* returns when WORKER_THREAD is alive and otherwise clears WORKER_STOP and
\* starts a new thread
on_startup ==
    /\ ~started
    /\ ~joining
    /\ starts < MaxStarts
    /\ started' = TRUE
    /\ starts' = starts + 1
    /\ IF async_pipeline_enabled /\ ~is_alive
       THEN /\ worker_stop' = FALSE
            /\ stop_polls' = 0
            /\ worker_pc' = "poll"
       ELSE UNCHANGED <<worker_stop, stop_polls, worker_pc>>
    /\ UNCHANGED joining
    /\ unchangedByHook

\* on_shutdown up to the join: nothing when WORKER_THREAD is None, else
\* WORKER_STOP.set()
on_shutdown ==
    /\ started
    /\ started' = FALSE
    /\ IF worker_pc = "none"
       THEN UNCHANGED <<worker_stop, stop_polls, joining>>
       ELSE /\ worker_stop' = TRUE
            /\ stop_polls' = IF worker_stop THEN stop_polls ELSE 0
            /\ joining' = TRUE
    /\ UNCHANGED <<starts, worker_pc>>
    /\ unchangedByHook

\* WORKER_THREAD.join(timeout=2.0) returns: the thread has ended, or the two
\* seconds have passed while the thread handles a batch (a Consume call blocks
\* for block_ms = 500 at most, the handling of a batch has no time limit)
join_returns ==
    /\ joining
    /\ worker_pc \notin {"poll", "consume"}
    /\ joining' = FALSE
    /\ UNCHANGED <<started, worker_stop, stop_polls, starts, worker_pc>>
    /\ unchangedByHook

\* the test of the while loop in _consume_turn_events: the Consume call comes
\* next, or the function returns and the thread ends
WorkerLoopTest ==
    /\ worker_pc = "poll"
    /\ worker_pc' = IF loop_continues(worker_stop) THEN "consume" ELSE "exited"
    /\ UNCHANGED <<started, shutdownVars>>
    /\ unchangedByHook

\* messages = EVENT_BUS.consume(...): the batch, or the next test of the loop
\* when it is empty (if not messages: continue)
LoopConsume ==
    /\ worker_pc = "consume"
    /\ LET out == consume(topics[TURN_INGEST_TOPIC], ConsumeCount)
           n == Len(out)
       IN /\ topics' = [topics EXCEPT ![TURN_INGEST_TOPIC] = popped(@, out)]
          /\ messages' = out
          /\ msg_index' = IF n > 0 THEN 1 ELSE 0
          /\ worker_pc' = IF n > 0 THEN "handle" ELSE "poll"
          /\ consumed' = consumed \o [i \in 1..n |-> out[i].message_id]
    /\ stop_polls' = IF worker_stop THEN stop_polls + 1 ELSE stop_polls
    /\ UNCHANGED <<settingVars, componentVars, syncVars, serviceVars, requestVars, started, worker_stop, joining, starts, sessions, turns, jobs, published, faults, job, attempt, last_error, result, attempt_log, handling, acked, graphVars>>

\* the steps of the worker thread with the in-memory bus and job store
LoopNext ==
    \/ WorkerLoopTest
    \/ LoopConsume
    \/ HandleBegin
    \/ \E r \in Responses : RunPipeline(r)
    \/ \E e \in ErrorTexts : RunPipelineRaises(e)
    \/ WriteCompleted
    \/ PublishProcessed
    \/ WriteFailed
    \/ PublishDeadLetter
    \/ Ack

\* the service across its startup and shutdown hooks, beside the
\* add_turn_async requests of its clients
LifecycleNext ==
    \/ on_startup
    \/ on_shutdown
    \/ join_returns
    \/ \E t \in Tenants : CreateSession(t)
    \/ \E t \in Tenants, s \in SessionIds, sp \in Speakers, c \in Contents,
          p \in NoParentTurnId :
          AddTurnAsync(t, s, sp, c, p)
    \/ AddTurnAsyncInOrder
    \/ \E t \in Tenants, s \in SessionIds, sp \in Speakers, c \in Contents :
          AddTurnAsyncConflict(t, s, sp, c)
    \/ \E t \in Tenants, s \in SessionIds, sp \in Speakers, c \in Contents :
          AddTurnAsyncRejected(t, s, sp, c)
    \/ LoopNext

\* ---------------------------------------------------------- graph service
\* how many upserts the graph service accepts in one run
MaxUpserts == 3

GraphSessions == {"s1"}

\* str.strip() and str.lower() on a name given as its characters
Whitespace == {" "}
lower_char(c) == CASE c = "T" -> "t" [] c = "D" -> "d" [] OTHER -> c
lower(name) == [i \in 1..Len(name) |-> lower_char(name[i])]
RECURSIVE lstrip(_)
lstrip(name) ==
    IF name # << >> /\ Head(name) \in Whitespace THEN lstrip(Tail(name)) ELSE name
RECURSIVE rstrip(_)
rstrip(name) ==
    IF name # << >> /\ name[Len(name)] \in Whitespace
    THEN rstrip(SubSeq(name, 1, Len(name) - 1)) ELSE name
strip(name) == rstrip(lstrip(name))

\* the repository classes build_graph_repository returns: MemoryGraphRepository
\* and Neo4jElasticsearchRepository
GraphBackends == {"memory", "neo4j"}

\* float("nan"), which `confidence: float` of Concept and Relation accepts
NaN == -1
\* b > a on floats: False when one of the two is NaN
float_gt(b, a) == a # NaN /\ b # NaN /\ b > a
\* max(a, b) of Python: the first argument unless the second is greater
max(a, b) == IF float_gt(b, a) THEN b ELSE a

\* the alias and turn-id strings of the model, in the order Python gives str
CodePointOrder == <<"TRF", "turn_1", "turn_2", "turn_3", "turn_4", "turn_5", "xfmr">>
\* sorted(set(list))
sorted_set(list) == SelectSeq(CodePointOrder, LAMBDA x : x \in Range(list))

\* Concept(...) and Relation(...) of app/common/schemas.py
Concept(node_id, canonical_name, aliases, confidence, evidence_turn_ids) ==
    [node_id |-> node_id, canonical_name |-> canonical_name, aliases |-> aliases,
     domain |-> "general", confidence |-> confidence,
     evidence_turn_ids |-> evidence_turn_ids]
Relation(edge_id, source_node_id, target_node_id, relation_type, confidence, evidence_turn_ids) ==
    [edge_id |-> edge_id, source_node_id |-> source_node_id,
     target_node_id |-> target_node_id, relation_type |-> relation_type,
     confidence |-> confidence, evidence_turn_ids |-> evidence_turn_ids]

\* the concepts and relations of the upsert requests the clients send: every
\* Concept and Relation object has the id its default factory or its client
\* gave it, and no two objects of the model share one
Turn1Graph ==
    [concepts |-> <<Concept("n1", <<"T", "r">>, <<"xfmr", "TRF">>, 50, <<"turn_1">>),
                    Concept("n2", <<"b">>, << >>, 50, <<"turn_1">>)>>,
     relations |-> <<Relation("e1", "n1", "n2", "causal", 50, <<"turn_1">>)>>]
Turn2Graph ==
    [concepts |-> <<Concept("n3", <<" ", "t", "r">>, <<"TRF">>, 90, <<"turn_2">>)>>,
     relations |-> <<Relation("e2", "n3", "n3", "definition", 90, <<"turn_2">>),
                     Relation("e3", "n3", "n9", "causal", 50, <<"turn_2">>)>>]
Turn3Graph ==
    [concepts |-> <<Concept("n5", <<"D">>, << >>, 50, <<"turn_3">>),
                    Concept("n6", <<"d", " ">>, <<"TRF", "TRF">>, 90, <<"turn_3">>)>>,
     relations |-> <<Relation("e4", "n5", "n6", "causal", 50, <<"turn_3">>),
                     Relation("e5", "n6", "n5", "causal", 90, <<"turn_3", "turn_3">>)>>]
Turn4Graph ==
    [concepts |-> <<Concept("n7", <<"t", "r">>, <<"xfmr">>, 50, <<"turn_4">>),
                    Concept("n8", <<"b", " ">>, << >>, 90, <<"turn_4", "turn_1">>)>>,
     relations |-> <<Relation("e6", "n7", "n8", "causal", 90, <<"turn_4">>)>>]
\* a concept whose name is blank, and a relation on it
BlankGraph ==
    [concepts |-> <<Concept("n10", <<" ">>, << >>, 50, <<"turn_5">>)>>,
     relations |-> <<Relation("e7", "n10", "n10", "definition", 50, <<"turn_5">>)>>]
\* a concept that its client gave the empty node id, and a relation on it
NoIdGraph ==
    [concepts |-> <<Concept("", <<"z">>, << >>, 50, <<"turn_5">>)>>,
     relations |-> <<Relation("e8", "", "", "definition", 50, <<"turn_5">>)>>]
\* a concept that came with the confidence NaN
NanGraph ==
    [concepts |-> <<Concept("n11", <<"b">>, << >>, NaN, <<"turn_5">>)>>,
     relations |-> << >>]
EmptyGraph == [concepts |-> << >>, relations |-> << >>]
GraphBodies == {Turn1Graph, Turn2Graph, Turn3Graph, Turn4Graph, BlankGraph, NoIdGraph, NanGraph, EmptyGraph}

\* GraphUpsertRequest; tenant_id "" is a request that names no tenant
GraphUpsertRequests ==
    {[tenant_id |-> t, session_id |-> s, concepts |-> b.concepts, relations |-> b.relations] :
        t \in Tenants \cup {""}, s \in GraphSessions, b \in GraphBodies}

\* dict access on a sequence of entries [key, value]
IndexOf(entries, key) ==
    IF \E i \in 1..Len(entries) : entries[i].key = key
    THEN CHOOSE i \in 1..Len(entries) : entries[i].key = key
    ELSE 0
Values(entries) == [i \in 1..Len(entries) |-> entries[i].value]
\* defaultdict(dict)[scope_key]
ScopeEntries(by_scope, scope_key) ==
    IF scope_key \in DOMAIN by_scope THEN by_scope[scope_key] ELSE << >>
SetScope(by_scope, scope_key, entries) ==
    [k \in DOMAIN by_scope \cup {scope_key} |->
        IF k = scope_key THEN entries ELSE by_scope[k]]
\* id_map[node_id] = value
SetId(id_map, node_id, value) ==
    [k \in DOMAIN id_map \cup {node_id} |-> IF k = node_id THEN value ELSE id_map[k]]

\* id_map.get(node_id)
GetId(id_map, node_id) == IF node_id \in DOMAIN id_map THEN Some(id_map[node_id]) ELSE None


\* key = concept.canonical_name.strip().lower()
concept_key(concept) == lower(strip(concept.canonical_name))

\* for concept in payload.concepts: merge into the concept stored under the
\* key, or store the concept
RECURSIVE upsert_concepts(_, _, _, _, _)
upsert_concepts(session_concepts, id_map, added_nodes, merged_nodes, concepts) ==
    IF concepts = << >>
    THEN [session_concepts |-> session_concepts, id_map |-> id_map,
          added_nodes |-> added_nodes, merged_nodes |-> merged_nodes]
    ELSE LET concept == Head(concepts)
             key == concept_key(concept)
             at == IndexOf(session_concepts, key)
         IN IF at # 0
            THEN LET existing == session_concepts[at].value
                     merged == [existing EXCEPT
                        !.aliases = sorted_set(existing.aliases \o concept.aliases),
                        !.evidence_turn_ids =
                            sorted_set(existing.evidence_turn_ids \o concept.evidence_turn_ids),
                        !.confidence = max(existing.confidence, concept.confidence)]
                 IN upsert_concepts([session_concepts EXCEPT ![at].value = merged],
                                    SetId(id_map, concept.node_id, existing.node_id),
                                    added_nodes, merged_nodes + 1, Tail(concepts))
            ELSE upsert_concepts(Append(session_concepts, [key |-> key, value |-> concept]),
                                 SetId(id_map, concept.node_id, concept.node_id),
                                 added_nodes + 1, merged_nodes, Tail(concepts))

\* a relation whose dedup key keeps the relation type only: what the
\* deduplication by (source, target, type) excludes
dedup_key_of_type(src_id, dst_id, relation_type) == <<relation_type>>

\* dedup_key = (src_id, dst_id, relation.relation_type.value)
dedup_key(src_id, dst_id, relation_type) == <<src_id, dst_id, relation_type>>

\* for relation in payload.relations: skip it when an endpoint is not in
\* id_map (or maps to ""), else rewrite its endpoints and merge or store it
RECURSIVE upsert_relations(_, _, _, _, _)
upsert_relations(session_relations, id_map, added_edges, merged_edges, relations) ==
    IF relations = << >>
    THEN [session_relations |-> session_relations,
          added_edges |-> added_edges, merged_edges |-> merged_edges]
    ELSE LET relation == Head(relations)
             src_id == GetId(id_map, relation.source_node_id)
             dst_id == GetId(id_map, relation.target_node_id)
         IN IF src_id = None \/ src_id = Some("") \/ dst_id = None \/ dst_id = Some("")
            THEN upsert_relations(session_relations, id_map, added_edges, merged_edges,
                                  Tail(relations))
            ELSE LET rewritten == [relation EXCEPT !.source_node_id = src_id[1],
                                                   !.target_node_id = dst_id[1]]
                     key == dedup_key(src_id[1], dst_id[1], relation.relation_type)
                     at == IndexOf(session_relations, key)
                 IN IF at # 0
                    THEN LET existing_relation == session_relations[at].value
                             merged == [existing_relation EXCEPT
                                !.confidence =
                                    max(existing_relation.confidence, relation.confidence),
                                !.evidence_turn_ids =
                                    sorted_set(existing_relation.evidence_turn_ids
                                                 \o relation.evidence_turn_ids)]
                         IN upsert_relations(
                                [session_relations EXCEPT ![at].value = merged],
                                id_map, added_edges, merged_edges + 1, Tail(relations))
                    ELSE upsert_relations(
                            Append(session_relations, [key |-> key, value |-> rewritten]),
                            id_map, added_edges + 1, merged_edges, Tail(relations))

\* A repository is [backend, concepts_by_scope, relations_by_scope, nodes,
\* relationships]: the class that build_graph_repository chose, the dicts of a
\* MemoryGraphRepository, and the Concept nodes and RELATION relationships of
\* the Neo4j database in the order they were created. A relationship is held
\* with the node_id of the nodes it joins: no statement changes the node_id of
\* a node, and the statements match and return the nodes of a relationship by
\* their node_id.
Repository(backend, by_concepts, by_relations, nodes, relationships) ==
    [backend |-> backend, concepts_by_scope |-> by_concepts,
     relations_by_scope |-> by_relations, nodes |-> nodes, relationships |-> relationships]

\* MemoryGraphRepository.upsert: the repository after the call and the
\* response
memory_upsert(repo, payload) ==
    LET scope_key == _scope_key(payload.tenant_id, payload.session_id)
        nodes == upsert_concepts(ScopeEntries(repo.concepts_by_scope, scope_key),
                                 << >>, 0, 0, payload.concepts)
        edges == upsert_relations(ScopeEntries(repo.relations_by_scope, scope_key),
                                  nodes.id_map, 0, 0, payload.relations)
    IN [backend |-> repo.backend,
        concepts_by_scope |->
            SetScope(repo.concepts_by_scope, scope_key, nodes.session_concepts),
        relations_by_scope |->
            SetScope(repo.relations_by_scope, scope_key, edges.session_relations),
        nodes |-> repo.nodes, relationships |-> repo.relationships,
        response |-> [tenant_id |-> payload.tenant_id, session_id |-> payload.session_id,
                      added_nodes |-> nodes.added_nodes, merged_nodes |-> nodes.merged_nodes,
                      added_edges |-> edges.added_edges, merged_edges |-> edges.merged_edges]]

\* MemoryGraphRepository.get_snapshot when no statement of an upsert runs
\* between its two reads: None for a scope never written
memory_get_snapshot(repo, tenant_id, session_id) ==
    LET scope_key == _scope_key(tenant_id, session_id)
    IN IF scope_key \notin DOMAIN repo.concepts_by_scope
       THEN None
       ELSE Some([tenant_id |-> tenant_id, session_id |-> session_id,
                  concepts |-> Values(repo.concepts_by_scope[scope_key]),
                  relations |-> Values(ScopeEntries(repo.relations_by_scope, scope_key))])

\* ---- Neo4jElasticsearchRepository ----
\* {tenant_id: $tenant_id, session_id: $session_id} in a MATCH
InScope(x, tenant_id, session_id) == x.tenant_id = tenant_id /\ x.session_id = session_id

\* Result.single(): None when the query gave no record, else the first one
single(records) == IF records = << >> THEN None ELSE Some(records[1])

\* (c:Concept {tenant_id: $tenant_id, session_id: $session_id, canonical_name:
\* $canonical_name}): the name as it is written
concept_matched(node, payload, concept) ==
    /\ InScope(node, payload.tenant_id, payload.session_id)
    /\ node.canonical_name = concept.canonical_name

\* existing = session.run(MATCH (c:Concept {...}) RETURN c.node_id, c.aliases,
\* c.evidence_turn_ids, c.confidence).single()
match_concept(nodes, payload, concept) ==
    LET matched == SelectSeq(nodes, LAMBDA node : concept_matched(node, payload, concept))
    IN single([i \in 1..Len(matched) |->
                  [node_id |-> matched[i].node_id, aliases |-> matched[i].aliases,
                   evidence_turn_ids |-> matched[i].evidence_turn_ids,
                   confidence |-> matched[i].confidence]])

\* aliases, evidence_turn_ids and confidence are computed from the record that
\* the MATCH returned, and session.run(MATCH (c:Concept {...}) SET ...) sets
\* them on the nodes that match when it runs
set_concept(nodes, payload, concept, existing) ==
    LET aliases == sorted_set(existing.aliases \o concept.aliases)
        evidence_turn_ids ==
            sorted_set(existing.evidence_turn_ids \o concept.evidence_turn_ids)
        confidence == max(existing.confidence, concept.confidence)
    IN [i \in 1..Len(nodes) |->
           IF concept_matched(nodes[i], payload, concept)
           THEN [nodes[i] EXCEPT !.aliases = aliases,
                                 !.evidence_turn_ids = evidence_turn_ids,
                                 !.confidence = confidence]
           ELSE nodes[i]]

\* session.run(CREATE (c:Concept {...}))
create_concept(nodes, payload, concept) ==
    Append(nodes, [tenant_id |-> payload.tenant_id, session_id |-> payload.session_id,
                   node_id |-> concept.node_id,
                   canonical_name |-> concept.canonical_name,
                   aliases |-> concept.aliases, domain |-> concept.domain,
                   confidence |-> concept.confidence,
                   evidence_turn_ids |-> concept.evidence_turn_ids])

\* for concept in payload.concepts: MATCH the Concept nodes of the scope whose
\* canonical_name is the concept's; SET the merged aliases, evidence and
\* confidence on them, or CREATE a node when there is none
RECURSIVE neo4j_upsert_concepts(_, _, _, _, _, _)
neo4j_upsert_concepts(nodes, id_map, added_nodes, merged_nodes, payload, concepts) ==
    IF concepts = << >>
    THEN [nodes |-> nodes, id_map |-> id_map,
          added_nodes |-> added_nodes, merged_nodes |-> merged_nodes]
    ELSE LET concept == Head(concepts)
             existing == match_concept(nodes, payload, concept)
         IN IF existing # None
            THEN neo4j_upsert_concepts(
                    set_concept(nodes, payload, concept, existing[1]),
                    SetId(id_map, concept.node_id, existing[1].node_id),
                    added_nodes, merged_nodes + 1, payload, Tail(concepts))
            ELSE neo4j_upsert_concepts(
                    create_concept(nodes, payload, concept),
                    SetId(id_map, concept.node_id, concept.node_id),
                    added_nodes + 1, merged_nodes, payload, Tail(concepts))

\* (src:Concept {..., node_id: $src_id})-[r:RELATION {tenant_id, session_id,
\* relation_type}]->(dst:Concept {..., node_id: $dst_id})
relation_matched(r, payload, relation, src_id, dst_id) ==
    /\ InScope(r, payload.tenant_id, payload.session_id)
    /\ r.relation_type = relation.relation_type
    /\ r.source_node_id = src_id
    /\ r.target_node_id = dst_id

\* existing = session.run(MATCH (src)-[r]->(dst) RETURN r.edge_id,
\* r.confidence, r.evidence_turn_ids).single()
match_relation(relationships, payload, relation, src_id, dst_id) ==
    LET matched == SelectSeq(relationships,
                             LAMBDA r : relation_matched(r, payload, relation, src_id, dst_id))
    IN single([i \in 1..Len(matched) |->
                  [edge_id |-> matched[i].edge_id, confidence |-> matched[i].confidence,
                   evidence_turn_ids |-> matched[i].evidence_turn_ids]])

\* confidence and evidence_turn_ids are computed from the record that the
\* MATCH returned, and session.run(MATCH (src)-[r]->(dst) SET ...) sets them on
\* the relationships that match when it runs
set_relation(relationships, payload, relation, src_id, dst_id, existing) ==
    LET confidence == max(existing.confidence, relation.confidence)
        evidence_turn_ids ==
            sorted_set(existing.evidence_turn_ids \o relation.evidence_turn_ids)
    IN [i \in 1..Len(relationships) |->
           IF relation_matched(relationships[i], payload, relation, src_id, dst_id)
           THEN [relationships[i] EXCEPT !.confidence = confidence,
                                         !.evidence_turn_ids = evidence_turn_ids]
           ELSE relationships[i]]

\* session.run(MATCH (src:Concept {...}) MATCH (dst:Concept {...}) CREATE
\* (src)-[:RELATION {...}]->(dst)): one relationship between every pair of
\* nodes with the two node ids
create_relation(nodes, relationships, payload, relation, src_id, dst_id) ==
    LET ends(node_id) ==
            SelectSeq(nodes, LAMBDA node :
                /\ InScope(node, payload.tenant_id, payload.session_id)
                /\ node.node_id = node_id)
        created == [tenant_id |-> payload.tenant_id, session_id |-> payload.session_id,
                    edge_id |-> relation.edge_id,
                    source_node_id |-> src_id, target_node_id |-> dst_id,
                    relation_type |-> relation.relation_type,
                    confidence |-> relation.confidence,
                    evidence_turn_ids |-> relation.evidence_turn_ids]
    IN relationships \o [k \in 1..(Len(ends(src_id)) * Len(ends(dst_id))) |-> created]

\* for relation in payload.relations: skip it when an endpoint is not in
\* id_map (or maps to ""); MATCH the relationships of the scope and the type
\* between the nodes with the two node ids and SET the merged confidence and
\* evidence on them, or CREATE one between every pair of such nodes
RECURSIVE neo4j_upsert_relations(_, _, _, _, _, _, _)
neo4j_upsert_relations(nodes, relationships, id_map, added_edges, merged_edges, payload, relations) ==
    IF relations = << >>
    THEN [relationships |-> relationships,
          added_edges |-> added_edges, merged_edges |-> merged_edges]
    ELSE LET relation == Head(relations)
             src_id == GetId(id_map, relation.source_node_id)
             dst_id == GetId(id_map, relation.target_node_id)
         IN IF src_id = None \/ src_id = Some("") \/ dst_id = None \/ dst_id = Some("")
            THEN neo4j_upsert_relations(nodes, relationships, id_map, added_edges,
                                        merged_edges, payload, Tail(relations))
            ELSE LET existing == match_relation(relationships, payload, relation,
                                                src_id[1], dst_id[1])
                 IN IF existing # None
                    THEN neo4j_upsert_relations(
                            nodes,
                            set_relation(relationships, payload, relation,
                                         src_id[1], dst_id[1], existing[1]),
                            id_map, added_edges, merged_edges + 1, payload, Tail(relations))
                    ELSE neo4j_upsert_relations(
                            nodes,
                            create_relation(nodes, relationships, payload, relation,
                                            src_id[1], dst_id[1]),
                            id_map, added_edges + 1, merged_edges, payload, Tail(relations))

\* Neo4jElasticsearchRepository.upsert when no statement of another call runs
\* between its statements (the Elasticsearch index it also writes is read by
\* no operation)
neo4j_upsert(repo, payload) ==
    LET nodes == neo4j_upsert_concepts(repo.nodes, << >>, 0, 0, payload, payload.concepts)
        edges == neo4j_upsert_relations(nodes.nodes, repo.relationships, nodes.id_map, 0, 0,
                                        payload, payload.relations)
    IN [backend |-> repo.backend,
        concepts_by_scope |-> repo.concepts_by_scope,
        relations_by_scope |-> repo.relations_by_scope,
        nodes |-> nodes.nodes, relationships |-> edges.relationships,
        response |-> [tenant_id |-> payload.tenant_id, session_id |-> payload.session_id,
                      added_nodes |-> nodes.added_nodes, merged_nodes |-> nodes.merged_nodes,
                      added_edges |-> edges.added_edges, merged_edges |-> edges.merged_edges]]

\* float(row["confidence"] or 0.5): a stored 0.0 reads as 0.5
confidence_or_default(confidence) == IF confidence = 0 THEN 50 ELSE confidence

\* the first query of get_snapshot and the Concept objects built from its rows
neo4j_concepts(nodes, tenant_id, session_id) ==
    LET rows == SelectSeq(nodes, LAMBDA node : InScope(node, tenant_id, session_id))
    IN [i \in 1..Len(rows) |->
           [node_id |-> rows[i].node_id,
            canonical_name |-> rows[i].canonical_name,
            aliases |-> rows[i].aliases,
            domain |-> IF rows[i].domain = "" THEN "general" ELSE rows[i].domain,
            confidence |-> confidence_or_default(rows[i].confidence),
            evidence_turn_ids |-> rows[i].evidence_turn_ids]]

\* the second query and the Relation objects built from its rows
neo4j_relations(relationships, tenant_id, session_id) ==
    LET relation_rows ==
            SelectSeq(relationships, LAMBDA r : InScope(r, tenant_id, session_id))
    IN [i \in 1..Len(relation_rows) |->
           [edge_id |-> relation_rows[i].edge_id,
            source_node_id |-> relation_rows[i].source_node_id,
            target_node_id |-> relation_rows[i].target_node_id,
            relation_type |-> relation_rows[i].relation_type,
            confidence |-> confidence_or_default(relation_rows[i].confidence),
            evidence_turn_ids |-> relation_rows[i].evidence_turn_ids]]

\* Neo4jElasticsearchRepository.get_snapshot when no statement of an upsert
\* runs between its two queries: the nodes and the relationships of the scope;
\* None when it has neither
neo4j_get_snapshot(repo, tenant_id, session_id) ==
    LET concepts == neo4j_concepts(repo.nodes, tenant_id, session_id)
        relations == neo4j_relations(repo.relationships, tenant_id, session_id)
    IN IF concepts = << >> /\ relations = << >>
       THEN None
       ELSE Some([tenant_id |-> tenant_id, session_id |-> session_id,
                  concepts |-> concepts, relations |-> relations])

\* GRAPH_REPOSITORY.upsert and GRAPH_REPOSITORY.get_snapshot: the method of the
\* class the repository has
upsert(repo, payload) ==
    IF repo.backend = "neo4j" THEN neo4j_upsert(repo, payload) ELSE memory_upsert(repo, payload)

get_snapshot(repo, tenant_id, session_id) ==
    IF repo.backend = "neo4j" THEN neo4j_get_snapshot(repo, tenant_id, session_id)
    ELSE memory_get_snapshot(repo, tenant_id, session_id)

\* GRAPH_REPOSITORY = build_graph_repository(): the Neo4j repository when
\* GRAPH_BACKEND is neo4j (and its driver can be built), else the memory one
GRAPH_REPOSITORY ==
    Repository(graph_backend, concepts_by_scope, relations_by_scope,
               neo4j.nodes, neo4j.relationships)

EmptyNeo4j == [nodes |-> << >>, relationships |-> << >>]

\* the service as it starts, on either backend
GraphRepositoryEmpty ==
    /\ graph_backend \in GraphBackends
    /\ concepts_by_scope = << >>
    /\ relations_by_scope = << >>
    /\ neo4j = EmptyNeo4j
    /\ response = None
    /\ upsert_log = << >>
    /\ upsert_threads = << >>

\* the same with the memory repository, the default of GRAPH_BACKEND and the
\* fallback when the Neo4j repository cannot be built
GraphRepositoryInit == GraphRepositoryEmpty /\ graph_backend = "memory"

\* POST /v1/graph/upsert by a caller of tenant `tenant`
TenantMismatch(tenant, payload) == payload.tenant_id # "" /\ payload.tenant_id # tenant

\* a request that the service handles while it handles no other request of
\* the graph service (the requests of a client that waits for each response);
\* UpsertThreadNext below has the requests that overlap, statement by
\* statement, on either repository
upsert_graph(tenant, payload) ==
    /\ Len(upsert_log) < MaxUpserts
    /\ ~TenantMismatch(tenant, payload)
    /\ LET normalized == [payload EXCEPT !.tenant_id = tenant]
           after == upsert(GRAPH_REPOSITORY, normalized)
       IN /\ concepts_by_scope' = after.concepts_by_scope
          /\ relations_by_scope' = after.relations_by_scope
          /\ neo4j' = [nodes |-> after.nodes, relationships |-> after.relationships]
          /\ response' = Some(after.response)
          /\ upsert_log' = Append(upsert_log,
                                  [payload |-> normalized, before |-> GRAPH_REPOSITORY])
    /\ UNCHANGED <<dialogueVars, graph_backend, upsert_threads>>

\* 403: the payload names another tenant than the caller's
upsert_graph_forbidden(tenant, payload) ==
    /\ TenantMismatch(tenant, payload)
    /\ UNCHANGED <<dialogueVars, graphVars>>

GraphNext ==
    \E tenant \in Tenants, payload \in GraphUpsertRequests :
        \/ upsert_graph(tenant, payload)
        \/ upsert_graph_forbidden(tenant, payload)

\* ---- upsert requests in the server's thread pool ----
\* upsert_graph is a plain `def` handler, which the server runs in worker
\* threads, and neither repository takes a lock. In MemoryGraphRepository.upsert
\* the statements of two calls interleave, and so do the read and the write of
\* a statement `existing.x = f(existing.x, incoming.x)`. In
\* Neo4jElasticsearchRepository.upsert every session.run is a statement the
\* database runs in a transaction of its own, and the statements of two calls
\* (of two threads, or of two server processes) interleave: a SET writes what
\* the call computed from the record of its earlier MATCH. A thread is
\* [payload, pc, i, existing, field, value, id_map, added_nodes, merged_nodes,
\* added_edges, merged_edges, before]: i is the position in payload.concepts or
\* payload.relations, existing the node id or edge id of the object the lookup
\* returned (memory) or the record the MATCH returned (Neo4j), field the
\* number of the merge statement it is at, value what that statement has
\* computed and not yet assigned, the four counters those of the response,
\* before the repository when the requests arrived.
UpsertThreads == {1, 2}
RaceTenant == "public"
RaceSession == "s1"
RaceScope == _scope_key(RaceTenant, RaceSession)
RaceRequest(b) == [tenant_id |-> RaceTenant, session_id |-> RaceSession, concepts |-> b.concepts, relations |-> b.relations]
EmptyRepository(backend) == Repository(backend, << >>, << >>, << >>, << >>)
ThreadStart(payload, before) == [payload |-> payload, pc |-> "begin", i |-> 0, existing |-> None, field |-> 0, value |-> None, id_map |-> << >>, added_nodes |-> 0, merged_nodes |-> 0, added_edges |-> 0, merged_edges |-> 0, before |-> before]

\* the merge statements in the order of the code: of a concept (aliases,
\* evidence_turn_ids, confidence) and of a relation (confidence,
\* evidence_turn_ids)
ConceptFields == <<"aliases", "evidence_turn_ids", "confidence">>
RelationFields == <<"confidence", "evidence_turn_ids">>

\* the right-hand side of a merge statement
merged_field(field, existing, incoming) ==
    CASE field = "aliases" -> sorted_set(existing.aliases \o incoming.aliases)
      [] field = "evidence_turn_ids" ->
            sorted_set(existing.evidence_turn_ids \o incoming.evidence_turn_ids)
      [] field = "confidence" -> max(existing.confidence, incoming.confidence)

\* existing.field = value
set_field(object, field, value) ==
    CASE field = "aliases" -> [object EXCEPT !.aliases = value]
      [] field = "evidence_turn_ids" -> [object EXCEPT !.evidence_turn_ids = value]
      [] field = "confidence" -> [object EXCEPT !.confidence = value]

\* the next statement after the body of the relations loop, and of the
\* concepts loop
AfterRelation(t) ==
    IF t.i < Len(t.payload.relations)
    THEN [t EXCEPT !.pc = "relation_get", !.i = t.i + 1, !.existing = None,
                   !.field = 0, !.value = None]
    ELSE [t EXCEPT !.pc = "done", !.existing = None, !.field = 0, !.value = None]
AfterConcept(t) ==
    IF t.i < Len(t.payload.concepts)
    THEN [t EXCEPT !.pc = "concept_get", !.i = t.i + 1, !.existing = None,
                   !.field = 0, !.value = None]
    ELSE AfterRelation([t EXCEPT !.i = 0])

unchangedByThread == UNCHANGED <<dialogueVars, graph_backend, neo4j, response, upsert_log>>

\* session_concepts = self.concepts_by_scope[scope_key] and the same for the
\* relations: the defaultdict creates the scope's dicts; the Neo4j repository
\* sets its counters and opens a session
upsert_begin(n) ==
    /\ n \in DOMAIN upsert_threads
    /\ upsert_threads[n].pc = "begin"
    /\ concepts_by_scope' =
          IF graph_backend = "neo4j" THEN concepts_by_scope
          ELSE SetScope(concepts_by_scope, RaceScope,
                        ScopeEntries(concepts_by_scope, RaceScope))
    /\ relations_by_scope' =
          IF graph_backend = "neo4j" THEN relations_by_scope
          ELSE SetScope(relations_by_scope, RaceScope,
                        ScopeEntries(relations_by_scope, RaceScope))
    /\ upsert_threads' = [upsert_threads EXCEPT ![n] = AfterConcept(@)]
    /\ unchangedByThread

\* existing = session_concepts.get(key); merged_nodes += 1 or added_nodes += 1
concept_get(n) ==
    /\ graph_backend = "memory"
    /\ n \in DOMAIN upsert_threads
    /\ upsert_threads[n].pc = "concept_get"
    /\ LET t == upsert_threads[n]
           session_concepts == concepts_by_scope[RaceScope]
           at == IndexOf(session_concepts, concept_key(t.payload.concepts[t.i]))
       IN upsert_threads' =
             [upsert_threads EXCEPT ![n] =
                 IF at # 0
                 THEN [t EXCEPT !.pc = "concept_read", !.field = 1,
                                !.existing = Some(session_concepts[at].value.node_id),
                                !.merged_nodes = @ + 1]
                 ELSE [t EXCEPT !.pc = "concept_put", !.added_nodes = @ + 1]]
    /\ UNCHANGED <<concepts_by_scope, relations_by_scope>>
    /\ unchangedByThread

\* where the Concept object that the lookup returned is stored now: 0 when
\* another thread has replaced it in the dict since (an object that is no
\* longer stored is read by no one)
ConceptAt(t) ==
    LET session_concepts == concepts_by_scope[RaceScope]
        at == IndexOf(session_concepts, concept_key(t.payload.concepts[t.i]))
    IN IF at # 0 /\ session_concepts[at].value.node_id = t.existing[1] THEN at ELSE 0

\* the right-hand side of existing.aliases = ..., existing.evidence_turn_ids =
\* ... or existing.confidence = ... is computed from what the object holds
concept_read(n) ==
    /\ n \in DOMAIN upsert_threads
    /\ upsert_threads[n].pc = "concept_read"
    /\ LET t == upsert_threads[n]
           at == ConceptAt(t)
       IN upsert_threads' =
             [upsert_threads EXCEPT ![n] =
                 [t EXCEPT !.pc = "concept_write",
                           !.value = IF at = 0 THEN None
                                     ELSE Some(merged_field(ConceptFields[t.field],
                                                            concepts_by_scope[RaceScope][at].value,
                                                            t.payload.concepts[t.i]))]]
    /\ UNCHANGED <<concepts_by_scope, relations_by_scope>>
    /\ unchangedByThread

\* the attribute is assigned; after the last of the three,
\* id_map[concept.node_id] = existing.node_id
concept_write(n) ==
    /\ n \in DOMAIN upsert_threads
    /\ upsert_threads[n].pc = "concept_write"
    /\ LET t == upsert_threads[n]
           at == ConceptAt(t)
           concept == t.payload.concepts[t.i]
       IN /\ concepts_by_scope' =
                IF at # 0 /\ t.value # None
                THEN SetScope(concepts_by_scope, RaceScope,
                              [concepts_by_scope[RaceScope] EXCEPT ![at].value =
                                  set_field(@, ConceptFields[t.field], t.value[1])])
                ELSE concepts_by_scope
          /\ upsert_threads' = [upsert_threads EXCEPT ![n] =
                IF t.field < Len(ConceptFields)
                THEN [t EXCEPT !.pc = "concept_read", !.field = t.field + 1, !.value = None]
                ELSE AfterConcept([t EXCEPT !.id_map = SetId(t.id_map, concept.node_id, t.existing[1])])]
    /\ UNCHANGED relations_by_scope
    /\ unchangedByThread

\* session_concepts[key] = concept; id_map[concept.node_id] = concept.node_id
concept_put(n) ==
    /\ n \in DOMAIN upsert_threads
    /\ upsert_threads[n].pc = "concept_put"
    /\ LET t == upsert_threads[n]
           concept == t.payload.concepts[t.i]
           key == concept_key(concept)
           session_concepts == concepts_by_scope[RaceScope]
           at == IndexOf(session_concepts, key)
       IN /\ concepts_by_scope' =
                SetScope(concepts_by_scope, RaceScope,
                         IF at # 0
                         THEN [session_concepts EXCEPT ![at].value = concept]
                         ELSE Append(session_concepts, [key |-> key, value |-> concept]))
          /\ upsert_threads' = [upsert_threads EXCEPT ![n] =
                AfterConcept([t EXCEPT !.id_map = SetId(t.id_map, concept.node_id, concept.node_id)])]
    /\ UNCHANGED relations_by_scope
    /\ unchangedByThread

\* the endpoints of the thread's current relation through its id_map
ThreadSrcId(t) == GetId(t.id_map, t.payload.relations[t.i].source_node_id)
ThreadDstId(t) == GetId(t.id_map, t.payload.relations[t.i].target_node_id)
ThreadDedupKey(t) == dedup_key(ThreadSrcId(t)[1], ThreadDstId(t)[1], t.payload.relations[t.i].relation_type)

\* src_id, dst_id = id_map.get(...); continue when one is missing; else
\* existing_relation = session_relations.get(dedup_key); merged_edges += 1 or
\* added_edges += 1
relation_get(n) ==
    /\ graph_backend = "memory"
    /\ n \in DOMAIN upsert_threads
    /\ upsert_threads[n].pc = "relation_get"
    /\ LET t == upsert_threads[n]
           src_id == ThreadSrcId(t)
           dst_id == ThreadDstId(t)
       IN IF src_id = None \/ src_id = Some("") \/ dst_id = None \/ dst_id = Some("")
          THEN upsert_threads' = [upsert_threads EXCEPT ![n] = AfterRelation(t)]
          ELSE LET session_relations == relations_by_scope[RaceScope]
                   at == IndexOf(session_relations, ThreadDedupKey(t))
               IN upsert_threads' = [upsert_threads EXCEPT ![n] =
                     IF at # 0
                     THEN [t EXCEPT !.pc = "relation_read", !.field = 1,
                                    !.existing = Some(session_relations[at].value.edge_id),
                                    !.merged_edges = @ + 1]
                     ELSE [t EXCEPT !.pc = "relation_put", !.added_edges = @ + 1]]
    /\ UNCHANGED <<concepts_by_scope, relations_by_scope>>
    /\ unchangedByThread

\* where the Relation object that the lookup returned is stored now
RelationAt(t) ==
    LET session_relations == relations_by_scope[RaceScope]
        at == IndexOf(session_relations, ThreadDedupKey(t))
    IN IF at # 0 /\ session_relations[at].value.edge_id = t.existing[1] THEN at ELSE 0

\* the right-hand side of existing_relation.confidence = ... or
\* existing_relation.evidence_turn_ids = ... is computed
relation_read(n) ==
    /\ n \in DOMAIN upsert_threads
    /\ upsert_threads[n].pc = "relation_read"
    /\ LET t == upsert_threads[n]
           at == RelationAt(t)
       IN upsert_threads' =
             [upsert_threads EXCEPT ![n] =
                 [t EXCEPT !.pc = "relation_write",
                           !.value = IF at = 0 THEN None
                                     ELSE Some(merged_field(RelationFields[t.field],
                                                            relations_by_scope[RaceScope][at].value,
                                                            t.payload.relations[t.i]))]]
    /\ UNCHANGED <<concepts_by_scope, relations_by_scope>>
    /\ unchangedByThread

\* the attribute is assigned
relation_write(n) ==
    /\ n \in DOMAIN upsert_threads
    /\ upsert_threads[n].pc = "relation_write"
    /\ LET t == upsert_threads[n]
           at == RelationAt(t)
       IN /\ relations_by_scope' =
                IF at # 0 /\ t.value # None
                THEN SetScope(relations_by_scope, RaceScope,
                              [relations_by_scope[RaceScope] EXCEPT ![at].value =
                                  set_field(@, RelationFields[t.field], t.value[1])])
                ELSE relations_by_scope
          /\ upsert_threads' = [upsert_threads EXCEPT ![n] =
                IF t.field < Len(RelationFields)
                THEN [t EXCEPT !.pc = "relation_read", !.field = t.field + 1, !.value = None]
                ELSE AfterRelation(t)]
    /\ UNCHANGED concepts_by_scope
    /\ unchangedByThread

\* session_relations[dedup_key] = relation, with its endpoints rewritten
relation_put(n) ==
    /\ n \in DOMAIN upsert_threads
    /\ upsert_threads[n].pc = "relation_put"
    /\ LET t == upsert_threads[n]
           relation == t.payload.relations[t.i]
           rewritten == [relation EXCEPT !.source_node_id = ThreadSrcId(t)[1],
                                         !.target_node_id = ThreadDstId(t)[1]]
           key == ThreadDedupKey(t)
           session_relations == relations_by_scope[RaceScope]
           at == IndexOf(session_relations, key)
       IN relations_by_scope' =
             SetScope(relations_by_scope, RaceScope,
                      IF at # 0
                      THEN [session_relations EXCEPT ![at].value = rewritten]
                      ELSE Append(session_relations, [key |-> key, value |-> rewritten]))
    /\ upsert_threads' = [upsert_threads EXCEPT ![n] = AfterRelation(@)]
    /\ UNCHANGED concepts_by_scope
    /\ unchangedByThread

\* ---- the statements of Neo4jElasticsearchRepository.upsert ----
unchangedByStatement == UNCHANGED <<dialogueVars, graph_backend, concepts_by_scope, relations_by_scope, response, upsert_log>>

\* existing = session.run(MATCH ... RETURN ...).single(); merged_nodes += 1 or
\* added_nodes += 1
neo4j_concept_match(n) ==
    /\ graph_backend = "neo4j"
    /\ n \in DOMAIN upsert_threads
    /\ upsert_threads[n].pc = "concept_get"
    /\ LET t == upsert_threads[n]
           existing == match_concept(neo4j.nodes, t.payload, t.payload.concepts[t.i])
       IN upsert_threads' =
             [upsert_threads EXCEPT ![n] =
                 IF existing # None
                 THEN [t EXCEPT !.pc = "concept_set", !.existing = existing,
                                !.merged_nodes = @ + 1]
                 ELSE [t EXCEPT !.pc = "concept_create", !.added_nodes = @ + 1]]
    /\ UNCHANGED neo4j
    /\ unchangedByStatement

\* session.run(MATCH ... SET ...) with the values computed from the record;
\* id_map[concept.node_id] = existing["node_id"]
neo4j_concept_set(n) ==
    /\ n \in DOMAIN upsert_threads
    /\ upsert_threads[n].pc = "concept_set"
    /\ LET t == upsert_threads[n]
           concept == t.payload.concepts[t.i]
       IN /\ neo4j' = [neo4j EXCEPT !.nodes = set_concept(@, t.payload, concept, t.existing[1])]
          /\ upsert_threads' = [upsert_threads EXCEPT ![n] =
                AfterConcept([t EXCEPT !.id_map = SetId(t.id_map, concept.node_id,
                                                        t.existing[1].node_id)])]
    /\ unchangedByStatement

\* session.run(CREATE (c:Concept {...})); id_map[concept.node_id] =
\* concept.node_id
neo4j_concept_create(n) ==
    /\ n \in DOMAIN upsert_threads
    /\ upsert_threads[n].pc = "concept_create"
    /\ LET t == upsert_threads[n]
           concept == t.payload.concepts[t.i]
       IN /\ neo4j' = [neo4j EXCEPT !.nodes = create_concept(@, t.payload, concept)]
          /\ upsert_threads' = [upsert_threads EXCEPT ![n] =
                AfterConcept([t EXCEPT !.id_map = SetId(t.id_map, concept.node_id,
                                                        concept.node_id)])]
    /\ unchangedByStatement

\* src_id, dst_id = id_map.get(...); continue when one is missing; else
\* existing = session.run(MATCH (src)-[r]->(dst) RETURN ...).single();
\* merged_edges += 1 or added_edges += 1
neo4j_relation_match(n) ==
    /\ graph_backend = "neo4j"
    /\ n \in DOMAIN upsert_threads
    /\ upsert_threads[n].pc = "relation_get"
    /\ LET t == upsert_threads[n]
           src_id == ThreadSrcId(t)
           dst_id == ThreadDstId(t)
       IN IF src_id = None \/ src_id = Some("") \/ dst_id = None \/ dst_id = Some("")
          THEN upsert_threads' = [upsert_threads EXCEPT ![n] = AfterRelation(t)]
          ELSE LET existing == match_relation(neo4j.relationships, t.payload,
                                              t.payload.relations[t.i], src_id[1], dst_id[1])
               IN upsert_threads' = [upsert_threads EXCEPT ![n] =
                     IF existing # None
                     THEN [t EXCEPT !.pc = "relation_set", !.existing = existing,
                                    !.merged_edges = @ + 1]
                     ELSE [t EXCEPT !.pc = "relation_create", !.added_edges = @ + 1]]
    /\ UNCHANGED neo4j
    /\ unchangedByStatement

\* session.run(MATCH (src)-[r]->(dst) SET ...) with the values computed from
\* the record
neo4j_relation_set(n) ==
    /\ n \in DOMAIN upsert_threads
    /\ upsert_threads[n].pc = "relation_set"
    /\ LET t == upsert_threads[n]
       IN neo4j' = [neo4j EXCEPT !.relationships =
                       set_relation(@, t.payload, t.payload.relations[t.i],
                                    ThreadSrcId(t)[1], ThreadDstId(t)[1], t.existing[1])]
    /\ upsert_threads' = [upsert_threads EXCEPT ![n] = AfterRelation(@)]
    /\ unchangedByStatement

\* session.run(MATCH (src) MATCH (dst) CREATE (src)-[:RELATION {...}]->(dst))
neo4j_relation_create(n) ==
    /\ n \in DOMAIN upsert_threads
    /\ upsert_threads[n].pc = "relation_create"
    /\ LET t == upsert_threads[n]
       IN neo4j' = [neo4j EXCEPT !.relationships =
                       create_relation(neo4j.nodes, @, t.payload, t.payload.relations[t.i],
                                       ThreadSrcId(t)[1], ThreadDstId(t)[1])]
    /\ upsert_threads' = [upsert_threads EXCEPT ![n] = AfterRelation(@)]
    /\ unchangedByStatement

UpsertThreadNext ==
    \E n \in UpsertThreads :
        \/ upsert_begin(n)
        \/ concept_get(n)
        \/ concept_read(n)
        \/ concept_write(n)
        \/ concept_put(n)
        \/ relation_get(n)
        \/ relation_read(n)
        \/ relation_write(n)
        \/ relation_put(n)
        \/ neo4j_concept_match(n)
        \/ neo4j_concept_set(n)
        \/ neo4j_concept_create(n)
        \/ neo4j_relation_match(n)
        \/ neo4j_relation_set(n)
        \/ neo4j_relation_create(n)

\* ---- the in-memory bus under any callers ----
\* publish and consume hold the bus lock while they touch the deque, so that
\* each call is one step whatever thread makes it; messages is the batch the
\* latest consume call returned
ConsumeCounts == {1, 2}
BusPayloads == {[n |-> 1]}
unchangedByBus == UNCHANGED <<hostVars, requestVars, started, sessions, turns, jobs, faults, worker_pc, msg_index, job, attempt, last_error, result, attempt_log, handling, graphVars>>

\* InMemoryEventBus.publish by any thread
BusPublish(topic, payload) ==
    /\ published[TURN_INGEST_TOPIC] + published[TURN_PROCESSED_TOPIC] + published[TURN_DEAD_LETTER_TOPIC] < MaxRequests
    /\ publish(topic, payload, None)
    /\ UNCHANGED <<messages, consumed, acked>>
    /\ unchangedByBus

\* InMemoryEventBus.consume by any thread: the batch may be empty
BusConsume(topic, count) ==
    /\ LET out == consume(topics[topic], count)
       IN /\ topics' = [topics EXCEPT ![topic] = popped(@, out)]
          /\ messages' = out
          /\ consumed' = consumed \o [i \in 1..Len(out) |-> out[i].message_id]
    /\ UNCHANGED <<published, acked>>
    /\ unchangedByBus

\* InMemoryEventBus.ack: del topic, consumer_group, messages; return None
BusAck(topic) ==
    /\ UNCHANGED <<topics, published, messages, consumed, acked>>
    /\ unchangedByBus

BusNext ==
    \/ \E topic \in Topics, payload \in BusPayloads : BusPublish(topic, payload)
    \/ \E topic \in Topics, count \in ConsumeCounts : BusConsume(topic, count)
    \/ \E topic \in Topics : BusAck(topic)

\* ------------------------------------------------- suggestion service
\* how many knowledge gaps one request carries at most
MaxGaps == 2

MISSING_PREREQUISITE == "missing_prerequisite"
WEAK_EVIDENCE == "weak_evidence"
AMBIGUOUS_REFERENCE == "ambiguous_reference"
UNRESOLVED_BRANCH == "unresolved_branch"
GapTypes == {MISSING_PREREQUISITE, WEAK_EVIDENCE, AMBIGUOUS_REFERENCE, UNRESOLVED_BRANCH}
GapPriorities == {1, 2, 3}
GapDescriptions == {"d1", "d2"}
KnowledgeGaps == [gap_type : GapTypes, priority : GapPriorities, description : GapDescriptions]
SuggestionRequests ==
    [tenant_id : {"", "public", "other"}, session_id : {"s1"},
     knowledge_gaps : UNION {[1..n -> KnowledgeGaps] : n \in 0..MaxGaps}]

_gap_to_question(gap_type, description) ==
    IF gap_type = AMBIGUOUS_REFERENCE
    THEN <<"Can you clarify exactly which concept your pronoun refers to?", description>>
    ELSE IF gap_type = MISSING_PREREQUISITE
    THEN <<"What prerequisite concept should we define first before this topic?", description>>
    ELSE IF gap_type = WEAK_EVIDENCE
    THEN <<"What evidence or source best supports this relationship?", description>>
    ELSE <<"Which branch should we expand next to make this knowledge path complete?", description>>

\* the gaps as the request gives them: what sorting by priority excludes
in_given_order(gaps) == gaps

\* sorted(gaps, key=lambda g: g.priority, reverse=True): a stable sort, gaps
\* of one priority stay in the order of the request
RECURSIVE insert_by_priority(_, _)
insert_by_priority(ranked, gap) ==
    IF ranked = << >> THEN <<gap>>
    ELSE IF Head(ranked).priority >= gap.priority
    THEN <<Head(ranked)>> \o insert_by_priority(Tail(ranked), gap)
    ELSE <<gap>> \o ranked
RECURSIVE sorted_by_priority(_)
sorted_by_priority(gaps) ==
    IF gaps = << >> THEN << >>
    ELSE insert_by_priority(sorted_by_priority(SubSeq(gaps, 1, Len(gaps) - 1)), gaps[Len(gaps)])

Suggestion(gap) ==
    [question |-> _gap_to_question(gap.gap_type, gap.description)[1],
     reason |-> _gap_to_question(gap.gap_type, gap.description)[2],
     priority |-> gap.priority]

DefaultSuggestion ==
    [question |-> "Would you like to add examples, counterpoints, or prerequisites to this topic?",
     reason |-> "No high-priority gaps were detected.",
     priority |-> 1]

\* the body of suggest_questions after the tenant check
ranked_suggestions(gaps) ==
    LET ranked == [i \in 1..Len(gaps) |-> Suggestion(sorted_by_priority(gaps)[i])]
    IN IF ranked = << >> THEN <<DefaultSuggestion>> ELSE ranked

\* POST /v1/suggestions/questions
suggest_questions(tenant, payload) ==
    /\ suggestion_call = None
    /\ suggestion_call' =
          IF payload.tenant_id # "" /\ payload.tenant_id # tenant
          THEN Some([tenant_id |-> tenant, payload |-> payload, status_code |-> 403,
                     suggestions |-> << >>])
          ELSE Some([tenant_id |-> tenant, payload |-> payload, status_code |-> 200,
                     suggestions |-> ranked_suggestions(payload.knowledge_gaps)])
    /\ UNCHANGED <<settingVars, componentVars, shutdownVars, syncVars, auth_call, requestVars, started, storeVars, faults, workerVars, historyVars, graphVars>>

\* the one call of a run, with any caller and any request
SuggestionNext ==
    /\ suggestion_call = None
    /\ \E tenant \in Tenants, payload \in SuggestionRequests : suggest_questions(tenant, payload)

\* ------------------------------------------------ the tenant dependency
\* tenant ids as their characters, for str.strip()
Acme == <<"a", "c", "m", "e">>
PaddedAcme == <<" ">> \o Acme \o <<" ">>
OtherTenant == <<"o", "t", "h", "e", "r">>
Blank == <<" ">>
\* settings.default_tenant_id
default_tenant_id == <<"p", "u", "b", "l", "i", "c">>
\* settings.tenant_api_keys
tenant_api_keys == [tenant \in {Acme} |-> "k1"]

\* AUTH_MODE after strip().lower(), one value the code does not support among them
AuthModes == {"none", "api_key", "jwt", "oauth"}
AuthSettings == [auth_mode : AuthModes, auth_required : BOOLEAN, jwt_installed : BOOLEAN]

\* the claims of a token: each absent (None) or present with a value
TokenClaims ==
    [tenant_id : {None, Some(<< >>), Some(Acme), Some(PaddedAcme), Some(OtherTenant)},
     tid : {None, Some(Acme), Some(OtherTenant)},
     tenant : {None, Some(OtherTenant)},
     sub : {None, Some(""), Some("u_1")}]
\* the Authorization header: absent, another scheme, or a bearer token that
\* jwt.decode accepts (verified) or raises on
Authorizations ==
    {None, Some([scheme |-> "basic", verified |-> FALSE, claims |-> None])}
      \cup {Some([scheme |-> "bearer", verified |-> FALSE, claims |-> None])}
      \cup {Some([scheme |-> "bearer", verified |-> TRUE, claims |-> Some(c)]) : c \in TokenClaims}
AuthRequests ==
    [x_tenant_id : {None, Some(Acme), Some(PaddedAcme), Some(OtherTenant), Some(Blank)},
     x_api_key : {None, Some("k1"), Some("bad")},
     authorization : Authorizations]

\* a value of Python is truthy: present and not the empty string
truthy(value) == value # None /\ value[1] # << >>

\* str(payload.get("tenant_id") or payload.get("tid") or payload.get("tenant") or "").strip()
token_tenant(claims) ==
    strip(IF truthy(claims.tenant_id) THEN claims.tenant_id[1]
          ELSE IF truthy(claims.tid) THEN claims.tid[1]
          ELSE IF truthy(claims.tenant) THEN claims.tenant[1]
          ELSE << >>)

\* a check that lets every token pass: what the comparison of the token's
\* tenant with the header excludes
never_mismatch(token, requested) == FALSE

\* if token_tenant and requested_tenant and token_tenant != requested_tenant
tenant_mismatch(token, requested) == token # << >> /\ requested # << >> /\ token # requested

\* str(payload.get("sub", "")) or None
subject_of(claims) == IF claims.sub = None \/ claims.sub = Some("") THEN None ELSE claims.sub

Rejected(status_code) == [status_code |-> status_code, context |-> None]
Resolved_context(tenant_id, api_key, subject) ==
    [status_code |-> 200,
     context |-> Some([tenant_id |-> tenant_id, api_key |-> api_key, subject |-> subject])]

\* the jwt branch of get_tenant_context
jwt_context(settings, request, requested_tenant) ==
    IF ~settings.jwt_installed THEN Rejected(500)
    ELSE IF request.authorization = None \/ request.authorization[1].scheme # "bearer"
    THEN Rejected(401)
    ELSE IF ~request.authorization[1].verified THEN Rejected(401)
    ELSE LET claims == request.authorization[1].claims[1]
             resolved_tenant == IF token_tenant(claims) # << >> THEN token_tenant(claims)
                                ELSE requested_tenant
         IN IF tenant_mismatch(token_tenant(claims), requested_tenant) THEN Rejected(403)
            ELSE IF resolved_tenant = << >> THEN Rejected(401)
            ELSE Resolved_context(resolved_tenant, None, subject_of(claims))

\* get_tenant_context: the status code of the HTTPException it raises, or 200
\* and the TenantContext it returns
get_tenant_context(settings, request) ==
    LET requested_tenant == strip(IF truthy(request.x_tenant_id) THEN request.x_tenant_id[1]
                                  ELSE default_tenant_id)
        mode == IF settings.auth_required /\ settings.auth_mode = "none" THEN "api_key"
                ELSE settings.auth_mode
    IN IF requested_tenant = << >> THEN Rejected(400)
       ELSE IF mode = "none" THEN Resolved_context(requested_tenant, request.x_api_key, None)
       ELSE IF mode = "api_key"
       THEN IF requested_tenant \notin DOMAIN tenant_api_keys THEN Rejected(401)
            ELSE IF request.x_api_key # Some(tenant_api_keys[requested_tenant]) THEN Rejected(401)
            ELSE Resolved_context(requested_tenant, request.x_api_key, None)
       ELSE IF mode = "jwt" THEN jwt_context(settings, request, requested_tenant)
       ELSE Rejected(500)

\* one request passes the dependency
Authenticate(settings, request) ==
    /\ auth_call = None
    /\ auth_call' = Some([settings |-> settings, request |-> request,
                          response |-> get_tenant_context(settings, request)])
    /\ UNCHANGED <<settingVars, componentVars, shutdownVars, syncVars, suggestion_call, requestVars, started, storeVars, faults, workerVars, historyVars, graphVars>>

\* the one call of a run, under any settings and with any request
AuthNext ==
    /\ auth_call = None
    /\ \E settings \in AuthSettings, request \in AuthRequests : Authenticate(settings, request)

vars == <<dialogueVars, graphVars>>

\* the service while it is up, from on_startup to on_shutdown: the requests
\* of its clients, call by call, beside the worker thread (LifecycleSpec has
\* the shutdown hook and the restarts), with the memory session store;
\* TurnSpec, IsolationSpec and SyncSpec run the requests on either session
\* store
Init == DialogueInit /\ GraphRepositoryInit /\ session_store_backend = "memory"

Next == Startup \/ ClientNext \/ WorkerNext

Spec == Init /\ [][Next]_vars

\* the startup hook runs, and the worker thread runs whenever it can
FairSpec == Spec /\ WF_vars(Startup) /\ WF_vars(WorkerNext)

\* the graph service alone, beside a dialogue service that is not started
GraphInit ==
    /\ Init
    /\ async_pipeline_enabled /\ async_retry_max_attempts = 2
    /\ event_bus_backend = "memory" /\ job_store_backend = "memory"

GraphSpec == GraphInit /\ [][GraphNext]_vars

\* the graph service on either repository build_graph_repository returns
BackendInit ==
    /\ DialogueInit /\ GraphRepositoryEmpty /\ session_store_backend = "memory"
    /\ async_pipeline_enabled /\ async_retry_max_attempts = 2
    /\ event_bus_backend = "memory" /\ job_store_backend = "memory"

BackendSpec == BackendInit /\ [][GraphNext]_vars

\* the requests of the dialogue service on either session store, the handler
\* of a turn call by call
TurnInit ==
    /\ DialogueInit /\ GraphRepositoryInit
    /\ async_pipeline_enabled /\ async_retry_max_attempts = 2
    /\ event_bus_backend = "memory" /\ job_store_backend = "memory"

TurnNext ==
    \/ Startup
    \/ \E t \in Tenants : CreateSession(t)
    \/ \E t \in Tenants, s \in SessionIds, sp \in Speakers, c \in Contents,
          p \in ParentTurnIds :
          AddTurnAsync(t, s, sp, c, p)
    \/ AddTurnAsyncNext
    \/ \E t \in Tenants, s \in SessionIds, sp \in Speakers, c \in Contents :
          AddTurnAsyncRejected(t, s, sp, c)
    \/ \E t \in Tenants, s \in SessionIds, sp \in Speakers, c \in Contents,
          p \in ParentTurnIds :
          AddTurnSync(t, s, sp, c, p)
    \/ AddTurnSyncNext

TurnSpec == TurnInit /\ [][TurnNext]_vars

\* the process started and shut down several times, with the in-memory bus
\* and job store
LifecycleInit ==
    /\ Init
    /\ async_retry_max_attempts = 2
    /\ event_bus_backend = "memory" /\ job_store_backend = "memory"

LifecycleSpec == LifecycleInit /\ [][LifecycleNext]_vars

\* the worker thread runs whenever it can
FairLifecycleSpec == LifecycleSpec /\ WF_vars(LoopNext)

\* the suggestion service, called once with any request
SuggestionSpec == GraphInit /\ [][SuggestionNext]_vars

\* the tenant dependency, called once
AuthSpec == GraphInit /\ [][AuthNext]_vars

\* the in-memory bus alone, called by any number of threads
BusInit == Init /\ event_bus_backend = "memory"

BusSpec == BusInit /\ [][BusNext]_vars

\* the requests of the dialogue service that create and read jobs, on either
\* job store
JobInit ==
    /\ DialogueInit /\ GraphRepositoryInit
    /\ async_retry_max_attempts = 2
    /\ event_bus_backend = "memory" /\ session_store_backend = "memory"

JobNext ==
    \/ Startup
    \/ \E t \in Tenants : CreateSession(t)
    \/ \E t \in Tenants, s \in SessionIds, sp \in Speakers, c \in Contents,
          p \in NoParentTurnId :
          AddTurnAsync(t, s, sp, c, p)
    \/ AddTurnAsyncInOrder
    \/ \E request \in BagToSet(creating) : AddTurnAsyncCreateJobRaises(request)
    \/ \E t \in Tenants, s \in SessionIds, sp \in Speakers, c \in Contents :
          AddTurnAsyncConflict(t, s, sp, c)
    \/ \E t \in Tenants, s \in SessionIds, sp \in Speakers, c \in Contents :
          AddTurnAsyncRejected(t, s, sp, c)
    \/ \E j \in JobIds : JobExpires(j)
    \/ \E t \in Tenants, j \in JobIds : GetJob(t, j)
    \/ \E t \in Tenants, j \in JobIds : GetJobRaises(t, j)

JobSpec == JobInit /\ [][JobNext]_vars

\* add_turn_async alone, with the pipeline enabled or disabled
ConflictNext ==
    \/ Startup
    \/ \E t \in Tenants : CreateSession(t)
    \/ \E t \in Tenants, s \in SessionIds, sp \in Speakers, c \in Contents,
          p \in NoParentTurnId :
          AddTurnAsync(t, s, sp, c, p)
    \/ AddTurnAsyncInOrder
    \/ \E t \in Tenants, s \in SessionIds, sp \in Speakers, c \in Contents :
          AddTurnAsyncConflict(t, s, sp, c)
    \/ \E t \in Tenants, s \in SessionIds, sp \in Speakers, c \in Contents :
          AddTurnAsyncRejected(t, s, sp, c)

ConflictSpec == JobInit /\ [][ConflictNext]_vars

\* the repositories the requests can arrive at: an empty one, or one that an
\* earlier upsert has filled
RepositoriesBefore(backend) ==
    {EmptyRepository(backend)} \cup
    {Repository(backend, r.concepts_by_scope, r.relations_by_scope, r.nodes, r.relationships) :
        r \in {upsert(EmptyRepository(backend), RaceRequest(b)) : b \in GraphBodies}}

\* the graph service on either repository, holding `before`, beside a dialogue
\* service that is not started
RepositoryHolds(before) ==
    /\ DialogueInit /\ session_store_backend = "memory"
    /\ async_pipeline_enabled /\ async_retry_max_attempts = 2
    /\ event_bus_backend = "memory" /\ job_store_backend = "memory"
    /\ graph_backend = before.backend
    /\ concepts_by_scope = before.concepts_by_scope
    /\ relations_by_scope = before.relations_by_scope
    /\ neo4j = [nodes |-> before.nodes, relationships |-> before.relationships]
    /\ response = None
    /\ upsert_log = << >>

\* two concurrent upsert requests of different turns for one scope
RaceInit ==
    \E backend \in GraphBackends :
        \E before \in RepositoriesBefore(backend) :
            /\ RepositoryHolds(before)
            /\ \E b1, b2 \in GraphBodies :
                  /\ b1 # b2
                  /\ upsert_threads = <<ThreadStart(RaceRequest(b1), before), ThreadStart(RaceRequest(b2), before)>>

RaceSpec == RaceInit /\ [][UpsertThreadNext]_vars

\* the client requests of the two services with tenant ids and session ids that
\* contain the separator of the stores' scope key: the tenant is any non-empty
\* X-Tenant-ID, the session id any path segment or payload field; the dialogue
\* service on either session store
IsolationTenants == {"a", "a:b"}
IsolationSessionIds == {SessionId(1), "b:" \o SessionId(1)}
IsolationGraphSessions == {"s1", "b:s1"}
IsolationUpsertRequests ==
    {[tenant_id |-> "", session_id |-> s, concepts |-> b.concepts, relations |-> b.relations] :
        s \in IsolationGraphSessions, b \in {Turn1Graph, Turn2Graph}}

IsolationNext ==
    \/ Startup
    \/ \E t \in IsolationTenants : CreateSession(t)
    \/ \E t \in IsolationTenants, s \in IsolationSessionIds, sp \in Speakers, c \in Contents,
          p \in NoParentTurnId :
          AddTurnAsync(t, s, sp, c, p)
    \/ AddTurnAsyncInOrder
    \/ \E t \in IsolationTenants, s \in IsolationSessionIds, sp \in Speakers, c \in Contents :
          AddTurnAsyncRejected(t, s, sp, c)
    \/ \E t \in IsolationTenants, payload \in IsolationUpsertRequests : upsert_graph(t, payload)

IsolationSpec == TurnInit /\ [][IsolationNext]_vars

\* the synchronous handler beside the other requests on sessions, on either
\* session store, with the in-memory job store and bus, the tenant ids and
\* session ids as in IsolationSpec
SyncInit == TurnInit

SyncNext ==
    \/ Startup
    \/ \E t \in IsolationTenants : CreateSession(t)
    \/ \E t \in IsolationTenants, s \in IsolationSessionIds, sp \in Speakers, c \in Contents,
          p \in NoParentTurnId :
          AddTurnSync(t, s, sp, c, p)
    \/ \E t \in IsolationTenants, s \in IsolationSessionIds, sp \in Speakers, c \in Contents :
          AddTurnSyncRejected(t, s, sp, c)
    \/ AddTurnSyncInOrder
    \/ \E t \in IsolationTenants, s \in IsolationSessionIds, sp \in Speakers, c \in Contents,
          p \in NoParentTurnId :
          AddTurnAsync(t, s, sp, c, p)
    \/ AddTurnAsyncInOrder
    \/ \E t \in IsolationTenants, s \in IsolationSessionIds, sp \in Speakers, c \in Contents :
          AddTurnAsyncRejected(t, s, sp, c)
    \/ \E t \in IsolationTenants, s \in IsolationSessionIds : ListTurns(t, s)
    \/ \E t \in IsolationTenants, s \in IsolationSessionIds : GetContextPath(t, s)

SyncSpec == SyncInit /\ [][SyncNext]_vars

\* the synchronous handler alone, on either bus: its requests side by side in
\* the thread pool, each making its calls one after another
PipelineInit ==
    /\ Init
    /\ async_pipeline_enabled /\ async_retry_max_attempts = 2
    /\ job_store_backend = "memory"

PipelineNext ==
    \/ Startup
    \/ \E t \in Tenants : CreateSession(t)
    \/ \E t \in Tenants, s \in SessionIds, sp \in Speakers, c \in Contents,
          p \in NoParentTurnId :
          AddTurnSync(t, s, sp, c, p)
    \/ \E t \in Tenants, s \in SessionIds, sp \in Speakers, c \in Contents :
          AddTurnSyncRejected(t, s, sp, c)
    \/ AddTurnSyncInOrder
    \/ \E r \in BagToSet(sync) : SyncPublishProcessedRaises(r)

PipelineSpec == PipelineInit /\ [][PipelineNext]_vars

\* ---- the session store under any caller of append_turn ----
\* the turns a caller hands to SESSION_STORE.append_turn: two turn ids, two
\* timestamps and two contents for one session
StoreTurns ==
    [turn_id : 1..2, tenant_id : {"public"}, session_id : {SessionId(1)},
     speaker : {"user"}, content : Contents \cup {"again"}, parent_turn_id : {None},
     created_at : 1..2]

\* CONSTRAINT fk_turn_session FOREIGN KEY (tenant_id, session_id) REFERENCES
\* dialogue_sessions: the INSERT of the Postgres store raises for a turn whose
\* tenant and session id are those of no session, and the table stays as it
\* is; the memory store takes any turn. (A handler stores a turn after
\* _require_session has found the session.)
fk_turn_session(turn) ==
    session_store_backend = "postgres" =>
        \E session \in sessions :
            session.tenant_id = turn.tenant_id /\ session.session_id = turn.session_id

\* SESSION_STORE.append_turn(turn, ...) on its own
StoreAppendTurn(turn) ==
    /\ NumTurns < MaxRequests
    /\ fk_turn_session(turn)
    /\ turns' = append_turn(turn)
    /\ UNCHANGED <<faults, hostVars, requestVars, started, sessions, jobs, topics,
                   published, workerVars, historyVars, graphVars>>

StoreNext ==
    \/ Startup
    \/ \E t \in {"public"} : CreateSession(t)
    \/ \E turn \in StoreTurns : StoreAppendTurn(turn)

StoreSpec == TurnInit /\ [][StoreNext]_vars

\* ---------------------------------------------------------- parser service
\* HeuristicParserBackend. A text is a sequence of one-character strings over
\* letters, the space and "?", its words are separated by single spaces.
MaxParses == 3
MemoryLimit == 50
UpperLetters == {"T", "D"}
LowerLetters == {"a", "b", "c", "d", "e", "f", "h", "i", "l", "n", "o", "r", "s", "t", "u", "w", "y"}

RECURSIVE JoinWords(_)
JoinWords(words) ==
    IF words = << >> THEN << >>
    ELSE IF Len(words) = 1 THEN words[1]
    ELSE words[1] \o <<" ">> \o JoinWords(Tail(words))

\* the words of a text: its maximal runs of characters other than the space
RECURSIVE SplitWords(_, _)
SplitWords(text, word) ==
    IF text = << >> THEN (IF word = << >> THEN << >> ELSE <<word>>)
    ELSE IF Head(text) \in Whitespace
         THEN (IF word = << >> THEN << >> ELSE <<word>>) \o SplitWords(Tail(text), << >>)
         ELSE SplitWords(Tail(text), Append(word, Head(text)))

\* pattern in text, for two strings
Contains(text, pattern) ==
    \E i \in 1..(Len(text) - Len(pattern) + 1) : SubSeq(text, i, i + Len(pattern) - 1) = pattern

\* the texts of the turns sent to the parser
TidalDataDrifts ==
    JoinWords(<< <<"T","i","d","a","l">>, <<"D","a","t","a">>, <<"d","r","i","f","t","s">> >>)
ItDrifts == JoinWords(<< <<"i","t">>, <<"d","r","i","f","t","s">>, <<"?">> >>)
ItIsTidalData ==
    JoinWords(<< <<"i","t">>, <<"i","s">>, <<"T","i","d","a","l">>, <<"D","a","t","a">> >>)
ParserTexts == {TidalDataDrifts, ItDrifts, ItIsTidalData}
ParserSessions == {"s1", "s2"}
ParseTurnRequests ==
    [tenant_id : {"public"}, session_id : ParserSessions,
     turn : [turn_id : {"turn_1"}, content : ParserTexts], history : {<< >>}]

\* [A-Z][a-z]+ : one word of PHRASE_PATTERN
IsCapitalized(word) ==
    /\ Len(word) >= 2
    /\ word[1] \in UpperLetters
    /\ \A i \in 2..Len(word) : word[i] \in LowerLetters

\* TOKEN_PATTERN [A-Za-z][A-Za-z0-9_\-]{2,} on a word of letters
IsToken(word) ==
    /\ Len(word) >= 3
    /\ \A i \in 1..Len(word) : word[i] \in UpperLetters \cup LowerLetters

\* the last word of the run of capitalized words that starts at words[i]
\* (i - 1 when words[i] is not capitalized)
RECURSIVE RunEnd(_, _)
RunEnd(words, i) ==
    IF i <= Len(words) /\ IsCapitalized(words[i]) THEN RunEnd(words, i + 1) ELSE i - 1

\* PHRASE_PATTERN.findall(text): the runs of two or more capitalized words
RECURSIVE PhrasesFrom(_, _)
PhrasesFrom(words, i) ==
    IF i > Len(words) THEN << >>
    ELSE IF RunEnd(words, i) > i
         THEN <<JoinWords(SubSeq(words, i, RunEnd(words, i)))>>
                 \o PhrasesFrom(words, RunEnd(words, i) + 1)
         ELSE PhrasesFrom(words, i + 1)
PHRASE_PATTERN(text) == PhrasesFrom(SplitWords(text, << >>), 1)

\* TOKEN_PATTERN.findall(text)
TOKEN_PATTERN(text) == SelectSeq(SplitWords(text, << >>), IsToken)

lower_text(text) == [i \in 1..Len(text) |-> IF text[i] \in UpperLetters THEN lower_char(text[i]) ELSE text[i]]

StopTokens ==
    {<<"w","h","a","t">>, <<"w","h","e","n">>, <<"w","h","e","r","e">>, <<"w","h","i","c","h">>,
     <<"w","i","t","h">>, <<"t","h","a","t">>, <<"t","h","i","s">>, <<"f","r","o","m">>,
     <<"i","n","t","o">>}

\* the two loops of _extract_concepts over the candidates left, with the names
\* seen so far; concept ids are new for every call
RECURSIVE KeepConcepts(_, _, _, _, _)
KeepConcepts(phrases, tokens, seen, turn_id, made) ==
    IF phrases # << >>
    THEN IF lower_text(Head(phrases)) \in seen
         THEN KeepConcepts(Tail(phrases), tokens, seen, turn_id, made)
         ELSE KeepConcepts(Tail(phrases), tokens, seen \cup {lower_text(Head(phrases))}, turn_id,
                  Append(made, [canonical_name |-> Head(phrases), confidence |-> 72,
                                evidence_turn_ids |-> <<turn_id>>]))
    ELSE IF tokens # << >>
    THEN IF \/ lower_text(Head(tokens)) \in seen \cup StopTokens
            \/ Len(Head(tokens)) < 5
         THEN KeepConcepts(phrases, Tail(tokens), seen, turn_id, made)
         ELSE KeepConcepts(phrases, Tail(tokens), seen \cup {lower_text(Head(tokens))}, turn_id,
                  Append(made, [canonical_name |-> Head(tokens), confidence |-> 58,
                                evidence_turn_ids |-> <<turn_id>>]))
    ELSE made

_extract_concepts(text, turn_id, call) ==
    LET made == KeepConcepts(PHRASE_PATTERN(text), TOKEN_PATTERN(text), {}, turn_id, << >>)
    IN [i \in 1..Len(made) |->
           [node_id |-> <<"node", call, i>>, canonical_name |-> made[i].canonical_name,
            aliases |-> << >>, domain |-> "general", confidence |-> made[i].confidence,
            evidence_turn_ids |-> made[i].evidence_turn_ids]]

HasAny(text, patterns) == \E p \in patterns : Contains(lower_text(text), p)

_extract_relations(text, concepts, turn_id) ==
    LET relation_type ==
          IF HasAny(text, {<<"b","e","c","a","u","s","e">>, <<"l","e","a","d","s"," ","t","o">>,
                           <<"c","a","u","s","e","s">>}) THEN "causal"
          ELSE IF HasAny(text, {<<"b","e","f","o","r","e">>, <<"a","f","t","e","r">>,
                                <<"t","h","e","n">>}) THEN "chronology"
          ELSE IF HasAny(text, {<<"h","o","w","e","v","e","r">>, <<"w","h","i","l","e">>,
                                <<"i","n"," ","c","o","n","t","r","a","s","t">>}) THEN "contrast"
          ELSE IF HasAny(text, {<<"d","e","p","e","n","d","s"," ","o","n">>,
                                <<"r","e","q","u","i","r","e">>}) THEN "dependency"
          ELSE IF HasAny(text, {<<"i","s">>, <<"m","e","a","n","s">>}) THEN "definition"
          ELSE "none"
    IN IF Len(concepts) < 2 \/ relation_type = "none" THEN << >>
       ELSE << [source_node_id |-> concepts[1].node_id, target_node_id |-> concepts[2].node_id,
                relation_type |-> relation_type, confidence |-> 60,
                evidence_turn_ids |-> <<turn_id>>] >>

Pronouns ==
    {<<"t","h","i","s">>, <<"t","h","a","t">>, <<"i","t">>, <<"t","h","e","y">>,
     <<"t","h","e","s","e">>, <<"t","h","o","s","e">>}

\* re.findall(r"\b(this|that|it|they|these|those)\b", text.lower())
mention_hits(text) == SelectSeq(SplitWords(lower_text(text), << >>), LAMBDA w : w \in Pronouns)

\* self.session_concept_memory.get(self._memory_key(tenant_id, session_id), [])
memory_of(tenant_id, session_id) ==
    IF _scope_key(tenant_id, session_id) \in DOMAIN session_concept_memory
    THEN session_concept_memory[_scope_key(tenant_id, session_id)] ELSE << >>

_resolve_coreference(tenant_id, session_id, text) ==
    LET memory == memory_of(tenant_id, session_id)
    IN IF mention_hits(text) = << >> \/ memory = << >> THEN << >>
       ELSE [i \in 1..Len(mention_hits(text)) |->
                [mention |-> mention_hits(text)[i], resolved_to |-> memory[Len(memory)],
                 confidence |-> 67]]

_build_gaps(session_id, text, concepts, coreferences) ==
    (IF mention_hits(text) # << >> /\ coreferences = << >>
     THEN << [session_id |-> session_id, gap_type |-> "ambiguous_reference", priority |-> 3] >>
     ELSE << >>)
    \o (IF "?" \in Range(text) /\ Len(concepts) <= 1
        THEN << [session_id |-> session_id, gap_type |-> "missing_prerequisite", priority |-> 2] >>
        ELSE << >>)
    \o (IF /\ Len(concepts) >= 3
           /\ ~Contains(lower_text(text), <<"b","e","c","a","u","s","e">>)
           /\ Contains(lower_text(text), <<"w","h","y">>)
        THEN << [session_id |-> session_id, gap_type |-> "weak_evidence", priority |-> 1] >>
        ELSE << >>)

\* HeuristicParserBackend.parse_turn: the response, for the call-th call
parse_turn_response(payload, call) ==
    LET text == payload.turn.content
        concepts == _extract_concepts(text, payload.turn.turn_id, call)
        coreferences == _resolve_coreference(payload.tenant_id, payload.session_id, text)
    IN [tenant_id |-> payload.tenant_id, session_id |-> payload.session_id,
        turn_id |-> payload.turn.turn_id, concepts |-> concepts,
        relations |-> _extract_relations(text, concepts, payload.turn.turn_id),
        coreferences |-> coreferences,
        knowledge_gaps |-> _build_gaps(payload.session_id, text, concepts, coreferences)]

\* POST /v1/parse/turn with the heuristic backend. parse_turn is a plain `def`
\* handler, which the server runs in worker threads, and the backend takes no
\* lock: the statements of the calls interleave. A call is [payload, pc,
\* response, sliced]: the response it has built and, once it has read it, the
\* list it is about to assign to the session's memory.
unchangedByParser ==
    UNCHANGED <<settingVars, shutdownVars, syncVars, serviceVars, snapshotVars, streamVars,
                requestVars, started, storeVars, faults, workerVars, historyVars, graphVars>>

ConceptNames(parsed) == [i \in 1..Len(parsed.concepts) |-> parsed.concepts[i].canonical_name]

SetMemory(memory_key, names) ==
    [k \in DOMAIN session_concept_memory \cup {memory_key} |->
        IF k = memory_key THEN names ELSE session_concept_memory[k]]

\* parse_turn up to `if concept_names:`: the concepts, relations, coreferences
\* (which read the session's memory) and gaps
parse_turn(payload) ==
    /\ Len(parse_calls) < MaxParses
    /\ LET parsed == parse_turn_response(payload, Len(parse_calls) + 1)
       IN parse_calls' = Append(parse_calls,
             [payload |-> payload, response |-> parsed, sliced |-> << >>,
              pc |-> IF ConceptNames(parsed) = << >> THEN "return" ELSE "extend"])
    /\ UNCHANGED <<session_concept_memory, parse_log>>
    /\ unchangedByParser

\* self.session_concept_memory[memory_key].extend(concept_names)
memory_extend(n) ==
    /\ n \in DOMAIN parse_calls
    /\ parse_calls[n].pc = "extend"
    /\ LET payload == parse_calls[n].payload
       IN session_concept_memory' =
             SetMemory(_scope_key(payload.tenant_id, payload.session_id),
                       memory_of(payload.tenant_id, payload.session_id)
                          \o ConceptNames(parse_calls[n].response))
    /\ parse_calls' = [parse_calls EXCEPT ![n].pc = "slice"]
    /\ UNCHANGED parse_log
    /\ unchangedByParser

\* self.session_concept_memory[memory_key][-50:], a new list
memory_slice(n) ==
    /\ n \in DOMAIN parse_calls
    /\ parse_calls[n].pc = "slice"
    /\ LET payload == parse_calls[n].payload
       IN parse_calls' = [parse_calls EXCEPT
             ![n].pc = "assign",
             ![n].sliced = LastN(memory_of(payload.tenant_id, payload.session_id), MemoryLimit)]
    /\ UNCHANGED <<session_concept_memory, parse_log>>
    /\ unchangedByParser

\* self.session_concept_memory[memory_key] = that list
memory_assign(n) ==
    /\ n \in DOMAIN parse_calls
    /\ parse_calls[n].pc = "assign"
    /\ LET payload == parse_calls[n].payload
       IN session_concept_memory' =
             SetMemory(_scope_key(payload.tenant_id, payload.session_id), parse_calls[n].sliced)
    /\ parse_calls' = [parse_calls EXCEPT ![n].pc = "return"]
    /\ UNCHANGED parse_log
    /\ unchangedByParser

\* return ParseTurnResponse(...)
parse_turn_return(n) ==
    /\ n \in DOMAIN parse_calls
    /\ parse_calls[n].pc = "return"
    /\ parse_calls' = [parse_calls EXCEPT ![n].pc = "returned"]
    /\ parse_log' = Append(parse_log, [request |-> parse_calls[n].payload,
                                       response |-> parse_calls[n].response])
    /\ UNCHANGED session_concept_memory
    /\ unchangedByParser

ParserNext ==
    \/ \E payload \in ParseTurnRequests : parse_turn(payload)
    \/ \E n \in 1..MaxParses :
          \/ memory_extend(n)
          \/ memory_slice(n)
          \/ memory_assign(n)
          \/ parse_turn_return(n)

ParserSpec == GraphInit /\ [][ParserNext]_vars

\* ---- a caller that keeps the GraphSnapshot it was given ----
\* get_graph is a plain `def` handler like upsert_graph, and get_snapshot reads
\* the concepts and the relations of the scope in two statements (two queries
\* on Neo4j, each a transaction of its own): the statements of an upsert that
\* another thread runs come between them. One call is under way at a time.

\* the keys of a dict in order: the objects that list(d.values()) holds
Keys(entries) == [i \in 1..Len(entries) |-> entries[i].key]

\* an upsert call has run its first statement and has not returned
UpsertUnderWay ==
    \E n \in DOMAIN upsert_threads : upsert_threads[n].pc \notin {"begin", "done"}

unchangedBySnapshot ==
    UNCHANGED <<settingVars, shutdownVars, syncVars, serviceVars, parserVars, streamVars,
                requestVars, started, storeVars, faults, workerVars, historyVars, graphVars>>

\* GET /v1/graph/{session_id}, to the first read of GRAPH_REPOSITORY.get_snapshot.
\* Memory: None, and 404, for a scope never written, else concepts =
\* list(self.concepts_by_scope[scope_key].values()), a new list of the stored
\* objects (kept as their keys). Neo4j: the first query, and Concept objects
\* built from its rows.
get_graph(tenant, session_id) ==
    /\ snapshot_call = None
    /\ LET scope_key == _scope_key(tenant, session_id)
       IN IF graph_backend = "neo4j"
          THEN /\ snapshot_call' =
                     Some([tenant_id |-> tenant, session_id |-> session_id,
                           concepts |-> neo4j_concepts(neo4j.nodes, tenant, session_id)])
               /\ UNCHANGED held_snapshot
          ELSE IF scope_key \notin DOMAIN concepts_by_scope
               THEN /\ snapshot_call' = None
                    /\ held_snapshot' = None
               ELSE /\ snapshot_call' =
                          Some([tenant_id |-> tenant, session_id |-> session_id,
                                concepts |-> Keys(concepts_by_scope[scope_key])])
                    /\ UNCHANGED held_snapshot
    /\ unchangedBySnapshot

\* the second read and the return. Memory: relations =
\* list(self.relations_by_scope[scope_key].values()) and the GraphSnapshot of
\* the two lists, whose elements read as the stored objects do now. Neo4j: the
\* second query; None, and 404, when both lists are empty.
get_graph_return ==
    /\ snapshot_call # None
    /\ LET call == snapshot_call[1]
           scope_key == _scope_key(call.tenant_id, call.session_id)
           session_concepts == concepts_by_scope[scope_key]
           session_relations == ScopeEntries(relations_by_scope, scope_key)
           relations ==
               IF graph_backend = "neo4j"
               THEN neo4j_relations(neo4j.relationships, call.tenant_id, call.session_id)
               ELSE Values(session_relations)
           concepts ==
               IF graph_backend = "neo4j"
               THEN call.concepts
               ELSE [i \in 1..Len(call.concepts) |->
                        session_concepts[IndexOf(session_concepts, call.concepts[i])].value]
       IN held_snapshot' =
             IF graph_backend = "neo4j" /\ concepts = << >> /\ relations = << >>
             THEN None
             ELSE Some([tenant_id |-> call.tenant_id, session_id |-> call.session_id,
                        concepts |-> IF graph_backend = "neo4j" THEN << >> ELSE call.concepts,
                        relations |-> IF graph_backend = "neo4j" THEN << >>
                                      ELSE Keys(session_relations),
                        returned |-> [tenant_id |-> call.tenant_id,
                                      session_id |-> call.session_id,
                                      concepts |-> concepts, relations |-> relations],
                        upsert_under_way |-> UpsertUnderWay])
    /\ snapshot_call' = None
    /\ unchangedBySnapshot

\* what the held GraphSnapshot reads as now: its lists are its own; their
\* elements are the objects stored in the memory repository, and objects of
\* its own when the Neo4j repository built it
held_value ==
    LET held == held_snapshot[1]
        scope_key == _scope_key(held.tenant_id, held.session_id)
        session_concepts == concepts_by_scope[scope_key]
        session_relations == ScopeEntries(relations_by_scope, scope_key)
    IN IF graph_backend = "neo4j"
       THEN held.returned
       ELSE [tenant_id |-> held.tenant_id, session_id |-> held.session_id,
             concepts |-> [i \in 1..Len(held.concepts) |->
                              session_concepts[IndexOf(session_concepts, held.concepts[i])].value],
             relations |-> [i \in 1..Len(held.relations) |->
                               session_relations[IndexOf(session_relations, held.relations[i])].value]]

\* one upsert request for a scope, on either repository, and the get_graph
\* calls of the two tenants beside its statements
SnapshotInit ==
    \E backend \in GraphBackends :
        \E before \in RepositoriesBefore(backend), b \in GraphBodies :
            /\ RepositoryHolds(before)
            /\ upsert_threads = <<ThreadStart(RaceRequest(b), before)>>

SnapshotNext ==
    \/ UpsertThreadNext
    \/ \E tenant \in Tenants, session_id \in GraphSessions : get_graph(tenant, session_id)
    \/ get_graph_return

SnapshotSpec == SnapshotInit /\ [][SnapshotNext]_vars

\* ---- add_turn_async in its steps, beside the running worker ----
EnqueueNext ==
    \/ Startup
    \/ \E t \in Tenants : CreateSession(t)
    \/ \E t \in Tenants, s \in SessionIds, sp \in Speakers, c \in Contents,
          p \in NoParentTurnId :
          AddTurnAsync(t, s, sp, c, p)
    \/ AddTurnAsyncInOrder
    \/ WorkerConsume
    \/ HandleBegin
    \/ \E r \in Responses : RunPipeline(r)
    \/ \E e \in ErrorTexts : RunPipelineRaises(e)
    \/ WriteCompleted
    \/ PublishProcessed
    \/ WriteFailed
    \/ PublishDeadLetter
    \/ Ack

EnqueueSpec == GraphInit /\ [][EnqueueNext]_vars

\* ---- the Redis stream bus under any callers ----
\* RedisStreamEventBus. A stream keeps its entries (topics[topic], the ids in
\* the order of XADD); a consumer group of the server has the position of the
\* last entry it delivered.
ConsumerGroups == {"dialogue-service", "audit"}
unchangedByStream == UNCHANGED <<settingVars, shutdownVars, syncVars, serviceVars, parserVars, snapshotVars, requestVars, started, sessions, turns, jobs, faults, worker_pc, msg_index, job, attempt, last_error, result, historyVars, graphVars>>

\* RedisStreamEventBus.publish: XADD
StreamPublish(topic, payload) ==
    /\ published[TURN_INGEST_TOPIC] + published[TURN_PROCESSED_TOPIC] + published[TURN_DEAD_LETTER_TOPIC] < MaxRequests
    /\ publish(topic, payload, None)
    /\ UNCHANGED <<messages, streamVars>>
    /\ unchangedByStream

\* RedisStreamEventBus.consume by any thread, the first of its two calls to
\* the server: _ensure_group for a group that _group_ready lacks (XGROUP
\* CREATE and the key noted, under the lock of the bus)
StreamEnsureGroup(topic, consumer_group) ==
    /\ <<topic, consumer_group>> \notin _group_ready
    /\ stream_groups' = _ensure_group(stream_groups, topics[topic], <<topic, consumer_group>>)
    /\ _group_ready' = _group_ready \cup {<<topic, consumer_group>>}
    /\ UNCHANGED <<topics, published, messages, delivered>>
    /\ unchangedByStream

\* RedisStreamEventBus.consume, the second call: XREADGROUP, the lock
\* released, for a group that _group_ready holds (_ensure_group of this call
\* noted it or found it noted); a call of a group the server dropped raises
\* and is left out
StreamConsume(topic, consumer_group, count) ==
    /\ <<topic, consumer_group>> \in _group_ready
    /\ LET key == <<topic, consumer_group>>
           out == xreadgroup(topics[topic], stream_groups[key], count)
       IN /\ UNCHANGED _group_ready
          /\ stream_groups' = [stream_groups EXCEPT ![key] = @ + Len(out)]
          /\ messages' = out
          /\ delivered' = delivered \cup {<<consumer_group, out[i].message_id>> : i \in 1..Len(out)}
    /\ UNCHANGED <<topics, published>>
    /\ unchangedByStream

\* the process is started again: build_event_bus() makes a bus whose
\* _group_ready is empty, the server keeps its streams and groups
StreamRestart ==
    /\ _group_ready # {}
    /\ _group_ready' = {}
    /\ UNCHANGED <<topics, published, messages, stream_groups, delivered>>
    /\ unchangedByStream

\* the stream of the turn.ingested topic, with the Redis bus configured
StreamTopics == {TURN_INGEST_TOPIC}
StreamInit ==
    /\ Init
    /\ async_pipeline_enabled /\ async_retry_max_attempts = 2
    /\ event_bus_backend = "redis" /\ job_store_backend = "memory"

StreamNext ==
    \/ \E topic \in StreamTopics, payload \in BusPayloads : StreamPublish(topic, payload)
    \/ \E topic \in StreamTopics, group \in ConsumerGroups : StreamEnsureGroup(topic, group)
    \/ \E topic \in StreamTopics, group \in ConsumerGroups, count \in ConsumeCounts :
          StreamConsume(topic, group, count)
    \/ StreamRestart

StreamSpec == StreamInit /\ [][StreamNext]_vars

\* --------------------------------------------------------------- properties
Terminal == {COMPLETED, FAILED}

Count(seq, x) == Cardinality({i \in 1..Len(seq) : seq[i] = x})

\* the envelopes on a topic that carry job j (the turn.processed event of the
\* synchronous add_turn carries no job id)
EventsFor(topic, j) ==
    {i \in 1..Len(topics[topic]) :
        /\ "job_id" \in DOMAIN topics[topic][i].payload
        /\ topics[topic][i].payload.job_id = j}

\* the call of _handle_turn_event the history variables describe is over
HandledMessage == handling.message[1]
HandledJobId == HandledMessage.payload.job_id
AllAttemptsRaised == \A i \in 1..Len(attempt_log) : attempt_log[i][1] = "raise"
SuccessfulAttempts == {i \in 1..Len(attempt_log) : attempt_log[i][1] = "ok"}

\* C1: once a job's stored status is completed or failed, no step changes the
\* stored job (status, result, error).
C1_TerminalSticky ==
    [][\A j \in DOMAIN jobs : jobs[j].status \in Terminal => jobs'[j] = jobs[j]]_vars

\* C2: a job is created queued, and its status only moves queued -> processing,
\* processing -> completed, processing -> failed.
C2_StatusTransitions ==
    [][\A j \in DOMAIN jobs' :
          IF j \notin DOMAIN jobs THEN jobs'[j].status = QUEUED
          ELSE \/ jobs'[j].status = jobs[j].status
               \/ <<jobs[j].status, jobs'[j].status>> \in
                     {<<QUEUED, PROCESSING>>, <<PROCESSING, COMPLETED>>,
                      <<PROCESSING, FAILED>>}]_vars

\* C3: when the handling of a turn.ingested message is over, whether the handler
\* returned or raised, exactly one terminal event (turn.processed or
\* turn.dead_letter) has been published for its job.
C3_ExactlyOneTerminalEvent ==
    handling.state \in {"returned", "raised"} =>
        Cardinality(EventsFor(TURN_PROCESSED_TOPIC, HandledJobId))
          + Cardinality(EventsFor(TURN_DEAD_LETTER_TOPIC, HandledJobId)) = 1

\* C4: under a fair scheduler, every job whose turn.ingested message is on the bus
\* eventually has status completed or failed.
C4_EveryJobTerminates ==
    \A j \in 1..MaxRequests :
        [](EventsFor(TURN_INGEST_TOPIC, j) # {}
              => <>(j \in DOMAIN jobs /\ jobs[j].status \in Terminal))

\* C5: the pipeline is never attempted more than R = max(retry_max_attempts, 1)
\* times for one message; and when the handling of a message is over (the handler
\* returned or raised) and every pipeline attempt it made raised, it made exactly
\* R attempts, the job is failed with the error of the last attempt, exactly one
\* turn.dead_letter event carries the original payload and that error, and no
\* turn.processed event was published for the job.
C5_RetryBound ==
    LET R == IF async_retry_max_attempts > 1 THEN async_retry_max_attempts ELSE 1
    IN /\ Len(attempt_log) <= R
       /\ (/\ handling.state \in {"returned", "raised"}
           /\ attempt_log # << >>
           /\ AllAttemptsRaised) =>
            /\ Len(attempt_log) = R
            /\ jobs[HandledJobId].status = FAILED
            /\ jobs[HandledJobId].error = Some(attempt_log[R][2])
            /\ Cardinality(EventsFor(TURN_DEAD_LETTER_TOPIC, HandledJobId)) = 1
            /\ \A i \in EventsFor(TURN_DEAD_LETTER_TOPIC, HandledJobId) :
                  /\ topics[TURN_DEAD_LETTER_TOPIC][i].payload.payload = HandledMessage.payload
                  /\ topics[TURN_DEAD_LETTER_TOPIC][i].payload.error = Some(attempt_log[R][2])
            /\ EventsFor(TURN_PROCESSED_TOPIC, HandledJobId) = {}

\* C6: when attempt k is the first successful pipeline attempt of a handling, no
\* attempt follows it; and when the handler has returned, the job is completed
\* with the response of attempt k, one turn.processed event and no
\* turn.dead_letter event were published for it.
C6_RetryThenSuccess ==
    SuccessfulAttempts # {} =>
        LET k == CHOOSE i \in SuccessfulAttempts : \A i2 \in SuccessfulAttempts : i <= i2
        IN /\ Len(attempt_log) = k
           /\ handling.state = "returned" =>
                /\ jobs[HandledJobId].status = COMPLETED
                /\ jobs[HandledJobId].result =
                      Some([turn_id |-> HandledMessage.payload.turn.turn_id,
                            body |-> attempt_log[k][2]])
                /\ Cardinality(EventsFor(TURN_PROCESSED_TOPIC, HandledJobId)) = 1
                /\ EventsFor(TURN_DEAD_LETTER_TOPIC, HandledJobId) = {}

\* C7: a job whose stored status is failed has a non-empty error string.
C7_FailedHasError ==
    \A j \in DOMAIN jobs :
        jobs[j].status = FAILED => jobs[j].error # None /\ jobs[j].error[1] # ""

\* C8: no consumed message is acknowledged twice, and whenever the worker is not
\* inside a batch (it waits for the next one, or its thread has ended) every
\* message Consume returned has been acknowledged exactly once.
C8_AckedExactlyOnce ==
    /\ \A m \in Range(consumed) : Count(acked, m) <= 1
    /\ worker_pc \in {"poll", "dead"} => \A m \in Range(consumed) : Count(acked, m) = 1

\* the latest accepted upsert and the one before it
LastUpsert == upsert_log[Len(upsert_log)]
PreviousUpsert == upsert_log[Len(upsert_log) - 1]

\* the snapshot of a scope with its concepts and relations as sets
SnapshotSets(repo, tenant_id, session_id) ==
    LET snapshot == get_snapshot(repo, tenant_id, session_id)[1]
    IN [concepts |-> Range(snapshot.concepts), relations |-> Range(snapshot.relations)]

NormalizedNames(payload) == {concept_key(c) : c \in Range(payload.concepts)}
NodeIds(payload) == {c.node_id : c \in Range(payload.concepts)}
EdgeIds(payload) == {r.edge_id : r \in Range(payload.relations)}

\* two payloads of different turns (no node id or edge id in common) for the
\* same scope that share no normalized concept name
DisjointPayloads(p1, p2) ==
    /\ p1.tenant_id = p2.tenant_id /\ p1.session_id = p2.session_id
    /\ NodeIds(p1) \cap NodeIds(p2) = {}
    /\ EdgeIds(p1) \cap EdgeIds(p2) = {}
    /\ NormalizedNames(p1) \cap NormalizedNames(p2) = {}

\* C9: when an upsert repeats the payload of the upsert before it, the snapshot
\* of the scope after it (concepts and relations with all their fields, in
\* order) is the snapshot the scope had before it.
C9_UpsertIdempotent ==
    (Len(upsert_log) >= 2 /\ LastUpsert.payload = PreviousUpsert.payload) =>
        get_snapshot(GRAPH_REPOSITORY, LastUpsert.payload.tenant_id,
                     LastUpsert.payload.session_id)
          = get_snapshot(LastUpsert.before, LastUpsert.payload.tenant_id,
                         LastUpsert.payload.session_id)

\* C10: when the last two upserts P1, P2 are disjoint payloads of different turns
\* for one scope, the scope's snapshot (as sets of concepts and relations) equals
\* the one that upserting P2 and then P1 on the same prior repository gives.
C10_DisjointUpsertsCommute ==
    (Len(upsert_log) >= 2 /\ DisjointPayloads(PreviousUpsert.payload, LastUpsert.payload)) =>
        LET p1 == PreviousUpsert.payload
            p2 == LastUpsert.payload
            swapped == upsert(upsert(PreviousUpsert.before, p2), p1)
        IN SnapshotSets(GRAPH_REPOSITORY, p1.tenant_id, p1.session_id)
             = SnapshotSets(swapped, p1.tenant_id, p1.session_id)

\* C10 witness: on a scope that already held a concept, two disjoint payloads
\* were upserted, one merging into the stored concept, and each left a relation.
C10_Witness ==
    /\ Len(upsert_log) = 3
    /\ DisjointPayloads(PreviousUpsert.payload, LastUpsert.payload)
    /\ PreviousUpsert.payload.concepts # << >>
    /\ LastUpsert.payload.concepts # << >>
    /\ response[1].merged_nodes > 0
    /\ response[1].added_edges > 0
    /\ Len(get_snapshot(GRAPH_REPOSITORY, LastUpsert.payload.tenant_id,
                        LastUpsert.payload.session_id)[1].relations) >= 3

\* the stored concepts and relations of a scope
StoredConcepts(scope_key) == Values(concepts_by_scope[scope_key])
StoredRelations(scope_key) == Values(ScopeEntries(relations_by_scope, scope_key))

\* the scopes a caller can name
GraphScopes == [tenant_id : Tenants, session_id : GraphSessions]

\* no call of upsert is under way
NoUpsertRunning == \A n \in DOMAIN upsert_threads : upsert_threads[n].pc = "done"

\* in the snapshot of the scope, no two concepts have the same
\* lower(trim(canonical_name)) and no two relations the same endpoints and type
NoDuplicates(snapshot) ==
    LET cs == snapshot.concepts
        rs == snapshot.relations
    IN /\ \A i, j \in 1..Len(cs) :
             lower(strip(cs[i].canonical_name)) = lower(strip(cs[j].canonical_name))
                => i = j
       /\ \A i, j \in 1..Len(rs) :
             (/\ rs[i].source_node_id = rs[j].source_node_id
              /\ rs[i].target_node_id = rs[j].target_node_id
              /\ rs[i].relation_type = rs[j].relation_type) => i = j

\* C11: in every scope, no two stored concepts have the same
\* lower(trim(canonical_name)), and no two stored relations have the same
\* (source_node_id, target_node_id, relation_type).
C11_NoDuplicates ==
    \A scope \in GraphScopes :
        LET snapshot == get_snapshot(GRAPH_REPOSITORY, scope.tenant_id, scope.session_id)
        IN snapshot # None => NoDuplicates(snapshot[1])

\* the same of the memory repository alone, after calls made one after another
\* and after calls that overlapped
C11_NoDuplicatesInMemory == graph_backend = "memory" => C11_NoDuplicates

\* an upsert that merged a concept whose name is written differently from the
\* stored one, and merged a relation, into a scope of the memory repository
C11_MergedInMemory ==
    /\ graph_backend = "memory"
    /\ response # None
    /\ response[1].merged_nodes > 0
    /\ response[1].merged_edges > 0
    /\ \E scope_key \in DOMAIN concepts_by_scope :
          /\ Len(StoredConcepts(scope_key)) >= 2
          /\ Len(StoredRelations(scope_key)) >= 1
          /\ \E c \in Range(LastUpsert.payload.concepts) :
                \E d \in Range(StoredConcepts(scope_key)) :
                    /\ c.canonical_name # d.canonical_name
                    /\ lower(strip(c.canonical_name)) = lower(strip(d.canonical_name))

\* in the snapshot of the scope, the endpoints of every relation are node ids
\* of its concepts
EndpointsExist(snapshot) ==
    \A r \in Range(snapshot.relations) :
        /\ \E c \in Range(snapshot.concepts) : c.node_id = r.source_node_id
        /\ \E c \in Range(snapshot.concepts) : c.node_id = r.target_node_id

\* C12: whenever no upsert call is under way, in every scope the
\* source_node_id and the target_node_id of every stored relation are node ids
\* of concepts stored in the same scope.
C12_EndpointsExist ==
    NoUpsertRunning =>
        \A scope \in GraphScopes :
            LET snapshot == get_snapshot(GRAPH_REPOSITORY, scope.tenant_id, scope.session_id)
            IN snapshot # None => EndpointsExist(snapshot[1])

\* an upsert, made while no other was under way, that stored a relation whose
\* endpoints were rewritten to the node id of a concept stored earlier, and
\* dropped another relation whose endpoint is no concept of the payload
C12_RewrittenAndDropped ==
    /\ upsert_log # << >>
    /\ LET p == LastUpsert.payload
           snapshot == get_snapshot(GRAPH_REPOSITORY, p.tenant_id, p.session_id)[1]
       IN /\ \E r \in Range(p.relations) :
                \E st \in Range(snapshot.relations) :
                    /\ st.edge_id = r.edge_id
                    /\ st.source_node_id # r.source_node_id
          /\ \E r \in Range(p.relations) :
                /\ r.target_node_id \notin NodeIds(p)
                /\ \A st \in Range(snapshot.relations) : st.edge_id # r.edge_id

\* the stored concept of a scope with the normalized name of concept c, and the
\* stored relation with the endpoints and type of relation r (as sets: empty when
\* there is none)
StoredAs(scope_key, c) ==
    {d \in Range(StoredConcepts(scope_key)) :
        lower(strip(d.canonical_name)) = lower(strip(c.canonical_name))}
StoredEdge(scope_key, src_id, dst_id, relation_type) ==
    {st \in Range(StoredRelations(scope_key)) :
        /\ st.source_node_id = src_id /\ st.target_node_id = dst_id
        /\ st.relation_type = relation_type}

\* the concepts of payload p that relation endpoint node_id names
Named(p, node_id) == {c \in Range(p.concepts) : c.node_id = node_id}

\* the relations of payload p that the upsert keeps: the two endpoints are
\* concepts of p, each with the stored concept it resolves to, whose node id is
\* not empty
Resolved(p, scope_key) ==
    {x \in [relation : Range(p.relations),
            src : Range(StoredConcepts(scope_key)),
            dst : Range(StoredConcepts(scope_key))] :
        /\ \E c \in Named(p, x.relation.source_node_id) : x.src \in StoredAs(scope_key, c)
        /\ \E c \in Named(p, x.relation.target_node_id) : x.dst \in StoredAs(scope_key, c)
        /\ x.src.node_id # "" /\ x.dst.node_id # ""}

\* the repository an upsert was applied to, read like the current one
ConceptsBefore(u, scope_key) == Values(ScopeEntries(u.before.concepts_by_scope, scope_key))
RelationsBefore(u, scope_key) == Values(ScopeEntries(u.before.relations_by_scope, scope_key))

\* a >= b on floats: False when one of the two is NaN
float_ge(a, b) == a # NaN /\ b # NaN /\ a >= b

\* C13: from one step of the upsert calls to the next, the confidence of a
\* stored concept and of a stored relation does not decrease: of a Concept
\* node and a RELATION relationship of the Neo4j database, and of a concept
\* object and a relation object that stays stored in the scope of the memory
\* repository.
C13_ConfidenceMonotone ==
    [][/\ \A i \in 1..Len(neo4j.nodes) :
             ~float_gt(neo4j.nodes[i].confidence, neo4j'.nodes[i].confidence)
       /\ \A i \in 1..Len(neo4j.relationships) :
             ~float_gt(neo4j.relationships[i].confidence,
                       neo4j'.relationships[i].confidence)
       /\ \A i \in 1..Len(ScopeEntries(concepts_by_scope, RaceScope)) :
             LET before == concepts_by_scope[RaceScope][i].value
                 after == concepts_by_scope'[RaceScope][i].value
             IN before.node_id = after.node_id =>
                   ~float_gt(before.confidence, after.confidence)
       /\ \A i \in 1..Len(ScopeEntries(relations_by_scope, RaceScope)) :
             LET before == relations_by_scope[RaceScope][i].value
                 after == relations_by_scope'[RaceScope][i].value
             IN before.edge_id = after.edge_id =>
                   ~float_gt(before.confidence, after.confidence)]_vars

\* what an upsert made while no other is under way leaves: each concept and
\* relation that was stored before it is still stored with a confidence not
\* below its confidence before, and each incoming concept and each incoming
\* relation with resolvable endpoints is stored (inserted or merged) with a
\* confidence not below the incoming one
MonotoneUpsert ==
    LET p == LastUpsert.payload
        scope_key == _scope_key(p.tenant_id, p.session_id)
    IN /\ \A k \in DOMAIN LastUpsert.before.concepts_by_scope :
            /\ \A b \in Range(ConceptsBefore(LastUpsert, k)) :
                  \E d \in StoredAs(k, b) :
                      d.node_id = b.node_id /\ float_ge(d.confidence, b.confidence)
            /\ \A b \in Range(RelationsBefore(LastUpsert, k)) :
                  \E st \in StoredEdge(k, b.source_node_id, b.target_node_id,
                                       b.relation_type) :
                      st.edge_id = b.edge_id /\ float_ge(st.confidence, b.confidence)
       /\ \A c \in Range(p.concepts) :
             \E d \in StoredAs(scope_key, c) : float_ge(d.confidence, c.confidence)
       /\ \A x \in Resolved(p, scope_key) :
             \E st \in StoredEdge(scope_key, x.src.node_id, x.dst.node_id,
                                  x.relation.relation_type) :
                 float_ge(st.confidence, x.relation.confidence)

\* the same of every upsert made while no other is under way
C13_MonotoneOneByOne == upsert_log # << >> => MonotoneUpsert

\* the confidences that are stored or have come in are numbers
NoNaN ==
    /\ \A i \in 1..Len(upsert_log) :
          \A c \in Range(upsert_log[i].payload.concepts) : c.confidence # NaN
    /\ \A i \in 1..Len(upsert_log) :
          \A r \in Range(upsert_log[i].payload.relations) : r.confidence # NaN

\* and of those whose confidences are all numbers
C13_MonotoneOneByOneOfNumbers == (upsert_log # << >> /\ NoNaN) => MonotoneUpsert

\* an upsert made while no other is under way merged a concept that came with
\* a lower confidence than the stored one, which kept its confidence, and
\* merged a relation that came with a higher confidence than the stored one
C13_MergedOneByOne ==
    /\ upsert_log # << >>
    /\ NoNaN
    /\ LET p == LastUpsert.payload
           scope_key == _scope_key(p.tenant_id, p.session_id)
       IN /\ \E c \in Range(p.concepts) :
                \E b \in Range(ConceptsBefore(LastUpsert, scope_key)) :
                    /\ b.confidence > c.confidence
                    /\ \E d \in StoredAs(scope_key, c) :
                          d.node_id = b.node_id /\ d.confidence = b.confidence
          /\ \E x \in Resolved(p, scope_key) :
                \E b \in Range(RelationsBefore(LastUpsert, scope_key)) :
                    /\ b.source_node_id = x.src.node_id
                    /\ b.target_node_id = x.dst.node_id
                    /\ b.relation_type = x.relation.relation_type
                    /\ b.confidence < x.relation.confidence

\* the accepted upsert payloads for a scope, in order
PayloadsFor(scope_key) ==
    SelectSeq([i \in 1..Len(upsert_log) |-> upsert_log[i].payload],
              LAMBDA p : _scope_key(p.tenant_id, p.session_id) = scope_key)

\* the turn ids contributed to stored concept d, and to stored relation st, by
\* the incoming entities inserted as it or merged into it
ConceptEvidence(scope_key, d) ==
    UNION {Range(c.evidence_turn_ids) :
             c \in {c \in UNION {Range(p.concepts) : p \in Range(PayloadsFor(scope_key))} :
                       d \in StoredAs(scope_key, c)}}
RelationEvidence(scope_key, st) ==
    UNION {Range(x.relation.evidence_turn_ids) :
             x \in {x \in UNION {Resolved(p, scope_key) : p \in Range(PayloadsFor(scope_key))} :
                       st \in StoredEdge(scope_key, x.src.node_id, x.dst.node_id,
                                         x.relation.relation_type)}}

\* C14: the evidence_turn_ids of every stored concept and relation is the sorted,
\* duplicate-free list of the turn ids of all incoming entities inserted as it
\* or merged into it.
C14_EvidenceUnion ==
    \A scope_key \in DOMAIN concepts_by_scope :
        /\ \A d \in Range(StoredConcepts(scope_key)) :
              d.evidence_turn_ids =
                 SelectSeq(CodePointOrder, LAMBDA t : t \in ConceptEvidence(scope_key, d))
        /\ \A st \in Range(StoredRelations(scope_key)) :
              st.evidence_turn_ids =
                 SelectSeq(CodePointOrder, LAMBDA t : t \in RelationEvidence(scope_key, st))

AllThreadsDone ==
    /\ upsert_threads # << >>
    /\ \A n \in UpsertThreads : upsert_threads[n].pc = "done"

\* the snapshots of the scope that the two requests leave when one call runs
\* after the other
SequentialOutcomes ==
    LET before == upsert_threads[1].before
        p1 == upsert_threads[1].payload
        p2 == upsert_threads[2].payload
    IN {SnapshotSets(upsert(upsert(before, p1), p2), RaceTenant, RaceSession),
        SnapshotSets(upsert(upsert(before, p2), p1), RaceTenant, RaceSession)}

\* C15: when two upsert calls on one scope have run concurrently, the graph of
\* the scope is the graph that one of the two sequential orders of the calls
\* produces, and the endpoints of every stored relation are node ids of stored
\* concepts.
C15_ConcurrentUpsertsSerialize ==
    AllThreadsDone =>
        /\ SnapshotSets(GRAPH_REPOSITORY, RaceTenant, RaceSession) \in SequentialOutcomes
        /\ \A r \in Range(StoredRelations(RaceScope)) :
              /\ \E c \in Range(StoredConcepts(RaceScope)) : c.node_id = r.source_node_id
              /\ \E c \in Range(StoredConcepts(RaceScope)) : c.node_id = r.target_node_id

\* the payloads that tenant t has upserted for session s
UpsertedBy(t, s) ==
    {upsert_log[i].payload : i \in {j \in 1..Len(upsert_log) :
        upsert_log[j].payload.tenant_id = t /\ upsert_log[j].payload.session_id = s}}

\* C16: for tenants t1 # t2 and any tenant ids and session ids, (a) the turns
\* that ListTurns returns to a tenant are turns of that tenant, (b) the snapshot
\* that the graph service returns to a tenant holds only concepts and relations
\* of payloads that this tenant upserted for the session, and (c) an upsert of
\* one tenant changes the snapshot of no session of another tenant.
C16_TenantIsolation ==
    /\ \A t \in IsolationTenants, s \in IsolationSessionIds :
          _require_session(t, s) =>
              \A turn \in Range(list_turns(t, s)) : turn.tenant_id = t
    /\ \A t \in IsolationTenants, s \in IsolationGraphSessions :
          LET snapshot == get_snapshot(GRAPH_REPOSITORY, t, s)
          IN snapshot # None =>
                /\ \A c \in Range(snapshot[1].concepts) :
                      \E p \in UpsertedBy(t, s) : c.node_id \in NodeIds(p)
                /\ \A r \in Range(snapshot[1].relations) :
                      \E p \in UpsertedBy(t, s) : r.edge_id \in EdgeIds(p)
    /\ upsert_log # << >> =>
          \A t \in IsolationTenants \ {LastUpsert.payload.tenant_id} :
              \A s \in IsolationGraphSessions :
                  get_snapshot(LastUpsert.before, t, s) = get_snapshot(GRAPH_REPOSITORY, t, s)

IsPrefix(a, b) == Len(a) <= Len(b) /\ SubSeq(b, 1, Len(a)) = a

\* C17: for every tenant and session, the sequence that ListTurns returns
\* before a step is a prefix of the sequence it returns after the step: a turn
\* that is at index i stays at index i with the same fields.
C17_ListTurnsPrefixStable ==
    [][\A t \in Tenants, s \in SessionIds :
          IsPrefix(list_turns(t, s), list_turns(t, s)')]_vars

\* C18: a GetJob call leaves the job store as it is; its response is 404
\* exactly when no job is stored under the id, 403 exactly when the stored job
\* is of another tenant than the caller, and otherwise 200 with the stored job;
\* a response never carries a job of another tenant.
C18_GetJob ==
    [][job_response' # job_response =>
         LET r == job_response'[1]
         IN /\ jobs' = jobs
            /\ r.status_code = 404 <=> r.job_id \notin DOMAIN jobs
            /\ r.status_code = 403 <=>
                  (r.job_id \in DOMAIN jobs /\ jobs[r.job_id].tenant_id # r.tenant_id)
            /\ r.status_code = 200 <=>
                  (r.job_id \in DOMAIN jobs /\ jobs[r.job_id].tenant_id = r.tenant_id)
            /\ r.status_code = 200 => r.body = Some(jobs[r.job_id])
            /\ r.status_code # 200 => r.body = None
            /\ r.body # None => r.body[1].tenant_id = r.tenant_id]_vars

\* the same with a job store whose calls return: the responses of the calls
\* that did not end with a 500
C18_GetJobWhenStoreAnswers ==
    [][(job_response' # job_response /\ job_response'[1].status_code # 500) =>
         LET r == job_response'[1]
         IN /\ jobs' = jobs
            /\ r.status_code = 404 <=> r.job_id \notin DOMAIN jobs
            /\ r.status_code = 403 <=>
                  (r.job_id \in DOMAIN jobs /\ jobs[r.job_id].tenant_id # r.tenant_id)
            /\ r.status_code = 200 <=>
                  (r.job_id \in DOMAIN jobs /\ jobs[r.job_id].tenant_id = r.tenant_id)
            /\ r.status_code = 200 => r.body = Some(jobs[r.job_id])
            /\ r.status_code # 200 => r.body = None
            /\ r.body # None => r.body[1].tenant_id = r.tenant_id]_vars

\* C18 witness: a tenant asked for a stored job of another tenant and got 403
\* and no job.
C18_Witness ==
    /\ job_response # None
    /\ job_response[1].status_code = 403
    /\ job_response[1].body = None
    /\ job_response[1].job_id \in DOMAIN jobs
    /\ jobs[job_response[1].job_id].tenant_id # job_response[1].tenant_id

\* C19: with the async pipeline disabled every AddTurnAsync request is answered
\* with conflict (409), whether or not its session exists, and none of them is
\* taken further; no step appends a turn to the session store, creates or
\* changes a job, or publishes an event.
C19_DisabledAddTurnAsyncConflict ==
    /\ [](~async_pipeline_enabled =>
             \A request \in BagToSet(creating) :
                 request.pc = "raised" /\ request.status_code = 409 /\ request.turn = None)
    /\ [][~async_pipeline_enabled => UNCHANGED <<turns, jobs, topics, published>>]_vars

\* C19 witness: with the async pipeline disabled, an AddTurnAsync request for a
\* session that exists was answered with 409 (and not with 404); there is no
\* turn, no job and no event.
C19_Witness ==
    /\ started
    /\ ~async_pipeline_enabled
    /\ \E request \in BagToSet(creating) :
          /\ request.pc = "raised"
          /\ request.status_code = 409
          /\ _require_session(request.tenant_id, request.session_id)
    /\ turns = << >> /\ jobs = << >>
    /\ \A topic \in Topics : topics[topic] = << >> /\ published[topic] = 0

\* the ids of the messages of a topic in the order their publish calls
\* completed
PublishOrder(topic) == [i \in 1..published[topic] |-> <<topic, i>>]

\* C20: on the in-memory bus, the batches that the worker's successive consume
\* calls on turn.ingested returned, one after the other, are a prefix of the
\* messages of the topic in the order they were published.
C20_InMemoryFifo ==
    event_bus_backend = "memory" => IsPrefix(consumed, PublishOrder(TURN_INGEST_TOPIC))

\* C20 witness: on the in-memory bus two consume calls have returned a message
\* each: the first batch is acknowledged, the second one is being handled.
C20_Witness ==
    /\ event_bus_backend = "memory"
    /\ Len(consumed) = 2
    /\ Len(messages) = 1
    /\ worker_pc = "handle"
    /\ acked # << >>

\* the concepts of payload p whose canonical_name is empty after trimming
BlankConcepts(p) == {c \in Range(p.concepts) : strip(c.canonical_name) = << >>}

\* C29: after an upsert, no concept is stored under the empty key, no concept of
\* the payload with a blank name is stored, no stored relation has the node id
\* of such a concept as an endpoint, and added_nodes + merged_nodes counts the
\* payload's concepts with a non-blank name only.
C29_BlankNameRejected ==
    upsert_log # << >> =>
        LET p == LastUpsert.payload
            scope_key == _scope_key(p.tenant_id, p.session_id)
        IN /\ IndexOf(concepts_by_scope[scope_key], << >>) = 0
           /\ \A c \in BlankConcepts(p) :
                 /\ \A d \in Range(StoredConcepts(scope_key)) : d.node_id # c.node_id
                 /\ \A st \in Range(StoredRelations(scope_key)) :
                       st.source_node_id # c.node_id /\ st.target_node_id # c.node_id
           /\ response[1].added_nodes + response[1].merged_nodes =
                 Cardinality({i \in 1..Len(p.concepts) : strip(p.concepts[i].canonical_name) # << >>})

\* the node ids of the stored concepts that the payload concepts named node_id
\* were inserted as or merged into (empty when the payload has no such concept)
CanonicalIds(p, scope_key, node_id) ==
    {d.node_id : d \in UNION {StoredAs(scope_key, c) : c \in Named(p, node_id)}}

\* the i-th relation of payload p with its endpoints rewritten, as a dedup key;
\* None when an endpoint is no concept of the payload
Remapped(p, scope_key, i) ==
    LET r == p.relations[i]
        src == CanonicalIds(p, scope_key, r.source_node_id)
        dst == CanonicalIds(p, scope_key, r.target_node_id)
    IN IF src = {} \/ dst = {} THEN None
       ELSE Some(<<CHOOSE x \in src : TRUE, CHOOSE x \in dst : TRUE, r.relation_type>>)

TripleOf(r) == <<r.source_node_id, r.target_node_id, r.relation_type>>

\* C30: after an upsert, the stored relations are those stored before it and
\* those of the payload whose two endpoints are concepts of the payload, under
\* their rewritten (src, dst, type); a relation with another endpoint changes
\* neither the stored relations nor the counters; merged_edges counts the kept
\* relations whose rewritten triple was stored already (before the upsert or by
\* an earlier relation of the payload), added_edges the other kept ones, which
\* are stored with their own edge id.
C30_RelationRemap ==
    upsert_log # << >> =>
        LET p == LastUpsert.payload
            scope_key == _scope_key(p.tenant_id, p.session_id)
            before == {TripleOf(b) : b \in Range(RelationsBefore(LastUpsert, scope_key))}
            kept == {i \in 1..Len(p.relations) : Remapped(p, scope_key, i) # None}
            merged == {i \in kept :
                         \/ Remapped(p, scope_key, i)[1] \in before
                         \/ \E j \in kept : j < i /\ Remapped(p, scope_key, j) = Remapped(p, scope_key, i)}
        IN /\ {TripleOf(st) : st \in Range(StoredRelations(scope_key))} =
                 before \cup {Remapped(p, scope_key, i)[1] : i \in kept}
           /\ response[1].merged_edges = Cardinality(merged)
           /\ response[1].added_edges = Cardinality(kept \ merged)
           /\ \A i \in kept \ merged :
                 \E st \in Range(StoredRelations(scope_key)) :
                     TripleOf(st) = Remapped(p, scope_key, i)[1] /\ st.edge_id = p.relations[i].edge_id

\* how often the message with id m is in the queue of topic t
Queued(t, m) == Cardinality({k \in 1..Len(topics[t]) : topics[t][k].message_id = m})

\* C21: after every step of publishers and consumers on the in-memory bus,
\* each published message is either once in the queue of its topic or was
\* returned once by a consume call, never both and never twice; a consume call
\* with count c returns at most c messages; an ack changes neither the queues
\* nor what was published or returned.
C21_PopOnConsume ==
    [][/\ \A t \in Topics : \A i \in 1..published'[t] :
             Queued(t, <<t, i>>)' + Count(consumed, <<t, i>>)' = 1
       /\ \A t \in Topics, c \in ConsumeCounts : BusConsume(t, c) => Len(messages') <= c
       /\ \A t \in Topics : BusAck(t) => UNCHANGED <<topics, published, consumed>>]_vars

\* C21 witness: two messages of one topic were published; a consume call with
\* count 1 has returned the first one while the second is still queued.
C21_Witness ==
    /\ event_bus_backend = "memory"
    /\ \E t \in Topics :
          /\ published[t] = 2
          /\ consumed = <<<<t, 1>>>>
          /\ Len(messages) = 1
          /\ Len(topics[t]) = 1 /\ topics[t][1].message_id = <<t, 2>>

\* the synchronous requests on record, in progress or ended
SyncRequests == BagToSet(sync)

\* the turn.processed events published for the turn of a synchronous request
SyncEvents(r) ==
    IF r.turn = None THEN {}
    ELSE {i \in 1..Len(topics[TURN_PROCESSED_TOPIC]) :
             topics[TURN_PROCESSED_TOPIC][i].payload.turn_id = r.turn[1].turn_id}

\* the stages before and after stage number k
StagesUpTo(k) == {Stages[j] : j \in 1..k}
StagesAfter(k) == {Stages[j] : j \in (k + 1)..Len(Stages)}

\* C22: in one synchronous add-turn request the parser, the graph upsert and the
\* suggestion service are each called at most once; when a call fails the
\* request ends with an error, the stages after it are not called and no
\* turn.processed event is published for the turn; when all three calls
\* succeeded, the request ends with exactly one turn.processed event published
\* for the turn, and returns.
C22_SyncNoRetry ==
    \A r \in SyncRequests :
        r.status_code # 404 =>
           /\ \A s \in Range(Stages) : r.calls[s] <= 1
           /\ r.stage \in {"turn", "store"} =>
                 /\ \A s \in Range(Stages) : r.calls[s] = 0
                 /\ SyncEvents(r) = {}
           /\ \A k \in 1..Len(Stages) :
                 r.stage = Stages[k] =>
                    /\ \A s \in StagesUpTo(k - 1) : r.calls[s] = 1
                    /\ \A s \in StagesAfter(k - 1) : r.calls[s] = 0
                    /\ SyncEvents(r) = {}
           /\ r.failed # None => r.stage = "raised"
           /\ (r.stage \in {"raised", "returned"} /\ r.failed = None) =>
                 /\ \A s \in Range(Stages) : r.calls[s] = 1
                 /\ r.status_code = 200
                 /\ Cardinality(SyncEvents(r)) = 1
           /\ \A k \in 1..Len(Stages) :
                 r.failed = Some(Stages[k]) =>
                    /\ r.status_code >= 400
                    /\ \A s \in StagesUpTo(k) : r.calls[s] = 1
                    /\ \A s \in StagesAfter(k) : r.calls[s] = 0
                    /\ SyncEvents(r) = {}
           /\ r.stage = "publish" =>
                 /\ \A s \in Range(Stages) : r.calls[s] = 1
                 /\ SyncEvents(r) = {}
           /\ r.stage = "returned" =>
                 /\ \A s \in Range(Stages) : r.calls[s] = 1
                 /\ r.status_code = 200
                 /\ Cardinality(SyncEvents(r)) = 1

\* the same on the in-memory bus, whose publish returns
C22_SyncNoRetryOnMemoryBus == event_bus_backend = "memory" => C22_SyncNoRetry

\* a request whose graph call failed after the parser call succeeded, beside
\* a request that succeeded and published its event
C22_Witness ==
    \E r \in SyncRequests :
        /\ r.turn # None
        /\ r.stage = "raised"
        /\ r.failed = Some("graph")
        /\ r.status_code = 500
        /\ r.calls = [s \in Range(Stages) |-> IF s = "suggestion" THEN 0 ELSE 1]
        /\ Len(topics[TURN_PROCESSED_TOPIC]) = 1
        /\ topics[TURN_PROCESSED_TOPIC][1].payload.turn_id # r.turn[1].turn_id

\* C23: once the stop flag is set the worker starts at most one more Consume
\* call (so at most one more poll-and-handle iteration), and under a fair
\* scheduler the worker thread then ends.
C23_CooperativeShutdown ==
    /\ [](stop_polls <= 1)
    /\ [](worker_stop => <>(~is_alive))

\* the flag was set between the test of the loop and the Consume call: the
\* worker made that one call and left the loop at the next test
C23_Witness ==
    /\ worker_stop
    /\ stop_polls = 1
    /\ worker_pc = "exited"

\* C24: with the async pipeline enabled, a startup call made while a worker
\* thread is alive starts no second thread, and whenever a startup call that
\* follows a shutdown has returned (and no shutdown has begun since) one worker
\* thread is alive and goes on consuming, that is, its stop flag is clear.
C24_OneWorker ==
    /\ [][(starts' # starts /\ is_alive) => worker_pc' = worker_pc]_vars
    /\ []((async_pipeline_enabled /\ started /\ starts >= 2) => (is_alive /\ ~worker_stop))

\* how many suggestions of a list, and how many gaps of a list, are or give
\* suggestion x
SuggestionCount(list, x) == Cardinality({i \in 1..Len(list) : list[i] = x})
GapCount(gaps, x) == Cardinality({i \in 1..Len(gaps) : Suggestion(gaps[i]) = x})

\* C27: when Suggest answers a request with a non-empty gap list it returns one
\* suggestion per gap (the question template of the gap's type, the gap's
\* description as reason, the gap's priority), in an order of non-increasing
\* priority; for an empty gap list it returns one default suggestion, whose
\* priority is 1.
C27_Suggest ==
    (suggestion_call # None /\ suggestion_call[1].status_code = 200) =>
        LET gaps == suggestion_call[1].payload.knowledge_gaps
            out == suggestion_call[1].suggestions
        IN IF gaps = << >>
           THEN /\ Len(out) = 1
                /\ out[1].priority = 1
                /\ out[1] = DefaultSuggestion
           ELSE /\ Len(out) = Len(gaps)
                /\ \A i \in 1..Len(gaps) :
                      SuggestionCount(out, Suggestion(gaps[i])) = GapCount(gaps, Suggestion(gaps[i]))
                /\ \A i \in 1..Len(out) - 1 : out[i].priority >= out[i + 1].priority
                /\ \A i \in 1..Len(gaps) :
                      /\ Suggestion(gaps[i]).reason = gaps[i].description
                      /\ Suggestion(gaps[i]).priority = gaps[i].priority
                      /\ \A j \in 1..Len(gaps) :
                            gaps[i].gap_type = gaps[j].gap_type =>
                               Suggestion(gaps[i]).question = Suggestion(gaps[j]).question

\* two gaps given in the order of rising priority come back in the other order
C27_Witness ==
    /\ suggestion_call # None
    /\ suggestion_call[1].status_code = 200
    /\ Len(suggestion_call[1].payload.knowledge_gaps) = 2
    /\ suggestion_call[1].payload.knowledge_gaps[1].priority = 1
    /\ suggestion_call[1].payload.knowledge_gaps[2].priority = 3
    /\ suggestion_call[1].payload.knowledge_gaps[1].gap_type = WEAK_EVIDENCE
    /\ suggestion_call[1].payload.knowledge_gaps[2].gap_type = UNRESOLVED_BRANCH
    /\ suggestion_call[1].suggestions[1].priority = 3
    /\ suggestion_call[1].suggestions[1].question = "Which branch should we expand next to make this knowledge path complete?"
    /\ suggestion_call[1].suggestions[2].question = "What evidence or source best supports this relationship?"

\* the tenant claim of a token: the first of tenant_id, tid and tenant that is
\* present and not empty, without surrounding whitespace
TenantClaim(claims) ==
    LET named == SelectSeq(<<claims.tenant_id, claims.tid, claims.tenant>>,
                           LAMBDA v : v # None /\ v[1] # << >>)
    IN IF named = << >> THEN << >> ELSE strip(named[1][1])

\* the request of the call was made in jwt mode with a token that verifies and
\* carries a tenant claim, and with an X-Tenant-ID header that is not blank
JwtCase ==
    /\ auth_call # None
    /\ auth_call[1].settings.auth_mode = "jwt"
    /\ auth_call[1].settings.jwt_installed
    /\ auth_call[1].request.authorization # None
    /\ auth_call[1].request.authorization[1].scheme = "bearer"
    /\ auth_call[1].request.authorization[1].verified
    /\ TenantClaim(auth_call[1].request.authorization[1].claims[1]) # << >>
    /\ auth_call[1].request.x_tenant_id # None
    /\ strip(auth_call[1].request.x_tenant_id[1]) # << >>

\* C28: in jwt mode, for a verified token with a tenant claim and a request
\* with an X-Tenant-ID header (both read without surrounding whitespace): when
\* the two differ the request is rejected with 403 and there is no tenant
\* context; when they agree the context's tenant is the token's tenant and its
\* subject is the token's sub claim (none when the claim is absent or empty).
C28_JwtTenant ==
    JwtCase =>
        LET claims == auth_call[1].request.authorization[1].claims[1]
            header == strip(auth_call[1].request.x_tenant_id[1])
            answer == auth_call[1].response
        IN IF TenantClaim(claims) # header
           THEN answer.status_code = 403 /\ answer.context = None
           ELSE /\ answer.status_code = 200
                /\ answer.context # None
                /\ answer.context[1].tenant_id = TenantClaim(claims)
                /\ answer.context[1].subject =
                      (IF claims.sub = None \/ claims.sub[1] = "" THEN None ELSE Some(claims.sub[1]))

\* a token of tenant acme with the header of another tenant: 403
C28_Witness ==
    /\ JwtCase
    /\ auth_call[1].request.authorization[1].claims[1].tenant_id = Some(Acme)
    /\ auth_call[1].request.authorization[1].claims[1].sub = Some("u_1")
    /\ auth_call[1].request.x_tenant_id = Some(OtherTenant)
    /\ auth_call[1].response.status_code = 403
    /\ auth_call[1].response.context = None

\* a history is the last min(HistoryWindow, n) of n listed turns, in their
\* order, and holds turns of this tenant and session only
HistoryOf(history, listed, tenant, session_id) ==
    /\ Len(history) = Min(HistoryWindow, Len(listed))
    /\ \A i \in 1..Len(history) : history[i] = listed[Len(listed) - Len(history) + i]
    /\ \A i \in 1..Len(history) :
          history[i].tenant_id = tenant /\ history[i].session_id = session_id

\* C25: the history of a synchronous add-turn request, and the history in every
\* turn.ingested event of an asynchronous one, is the last min(12, n) turns of
\* the n turns ListTurns gave for the session when the history was read, in
\* that order, and every turn in it is a turn of the request's tenant and
\* session.
C25_HistoryWindow ==
    /\ [](\A r \in SyncRequests :
             r.status_code # 404 => HistoryOf(r.history, r.listed, r.tenant_id, r.session_id))
    /\ [](\A request \in BagToSet(creating) :
             HistoryOf(request.history, request.listed, request.tenant_id, request.session_id))
    /\ [][published'[TURN_INGEST_TOPIC] > published[TURN_INGEST_TOPIC] =>
             LET payload == topics'[TURN_INGEST_TOPIC][Len(topics'[TURN_INGEST_TOPIC])].payload
             IN \E request \in BagToSet(creating) :
                   /\ request.pc = "publish"
                   /\ request.turn[1] = payload.turn
                   /\ payload.history = request.history
                   /\ payload.tenant_id = request.tenant_id
                   /\ payload.session_id = request.session_id]_vars

\* a session with these ids was created
SessionCreated(tenant, session_id) ==
    \E session \in sessions : session.tenant_id = tenant /\ session.session_id = session_id

\* the stored turns, the jobs and the events on a topic that name a tenant and
\* a session id
TurnsOf(store, tenant, session_id) ==
    {turn \in UNION {Range(store[scope]) : scope \in DOMAIN store} :
        turn.tenant_id = tenant /\ turn.session_id = session_id}
JobsOf(store, tenant, session_id) ==
    {j \in DOMAIN store : store[j].tenant_id = tenant /\ store[j].session_id = session_id}
EventsOf(queue, tenant, session_id) ==
    {i \in 1..Len(queue) :
        queue[i].payload.tenant_id = tenant /\ queue[i].payload.session_id = session_id}

\* C26: every stored turn has a created session with its tenant id and session
\* id; a GET of the turns or of the context path and a synchronous add-turn
\* request for a (tenant, session id) with no created session are answered
\* not-found, and no step of a request for such a pair adds a turn, a job or
\* an event.
C26_TurnsHaveSessions ==
    /\ [](\A scope \in DOMAIN turns : \A i \in 1..Len(turns[scope]) :
             SessionCreated(turns[scope][i].tenant_id, turns[scope][i].session_id))
    /\ []((read_response # None /\ read_response[1].status_code = 200) =>
             SessionCreated(read_response[1].tenant_id, read_response[1].session_id))
    /\ [](\A r \in SyncRequests :
             r.status_code # 404 => SessionCreated(r.tenant_id, r.session_id))
    /\ [][\A t \in IsolationTenants, s \in IsolationSessionIds :
             (~SessionCreated(t, s) /\ ~SessionCreated(t, s)') =>
                /\ TurnsOf(turns', t, s) = TurnsOf(turns, t, s)
                /\ JobsOf(jobs', t, s) = JobsOf(jobs, t, s)
                /\ \A topic \in Topics :
                      EventsOf(topics'[topic], t, s) = EventsOf(topics[topic], t, s)]_vars

\* the stage returned: it was called and its call did not raise
StageReturned(r, stage) == r.calls[stage] = 1 /\ r.failed # Some(stage)

\* C31: in one run of the pipeline the requests go out in the order parser,
\* graph, suggestion; the graph request is sent only after the parser returned
\* and carries the concepts and relations of that parse result; the suggestion
\* request is sent only after the graph call returned and carries the knowledge
\* gaps of the same parse result.
C31_StageOrder ==
    \A r \in SyncRequests :
        /\ Len(r.sent) <= Len(Stages)
        /\ r.turn = None => r.sent = << >>
        /\ \A i \in 1..Len(r.sent) : r.sent[i].stage = Stages[i]
        /\ \A i \in 1..Len(r.sent) :
              r.sent[i].stage = "graph" =>
                 /\ StageReturned(r, "parser")
                 /\ r.parse_result # None
                 /\ r.sent[i].request.concepts = r.parse_result[1].concepts
                 /\ r.sent[i].request.relations = r.parse_result[1].relations
        /\ \A i \in 1..Len(r.sent) :
              r.sent[i].stage = "suggestion" =>
                 /\ StageReturned(r, "parser")
                 /\ StageReturned(r, "graph")
                 /\ r.sent[i].request.knowledge_gaps = r.parse_result[1].knowledge_gaps

\* all three requests were sent, the parser having answered two concepts, a
\* relation and a knowledge gap
C31_Witness ==
    \E r \in SyncRequests :
        /\ r.turn # None
        /\ Len(r.sent) = 3
        /\ r.parse_result # None
        /\ r.parse_result[1].concepts = <<"n1", "n2">>
        /\ r.sent[2].request.concepts = <<"n1", "n2">>
        /\ r.sent[3].request.knowledge_gaps = <<"gap_1">>

\* two payloads for one scope, whatever node ids, edge ids and names they hold
SameScopePayloads(p1, p2) ==
    /\ p1.tenant_id = p2.tenant_id /\ p1.session_id = p2.session_id

\* C32: when the last two upserts P1, P2 are for one scope, the scope's snapshot
\* (the set of its concepts and the set of its relations, with all their fields)
\* equals the one that upserting P2 and then P1 on the same prior repository
\* gives, also when P1 and P2 hold concepts with the same normalized name.
C32_UpsertsCommute ==
    (Len(upsert_log) >= 2 /\ SameScopePayloads(PreviousUpsert.payload, LastUpsert.payload)) =>
        LET p1 == PreviousUpsert.payload
            p2 == LastUpsert.payload
            swapped == upsert(upsert(PreviousUpsert.before, p2), p1)
        IN SnapshotSets(GRAPH_REPOSITORY, p1.tenant_id, p1.session_id)
             = SnapshotSets(swapped, p1.tenant_id, p1.session_id)


\* C33: in every reachable state, for every tenant and session, the sequence
\* that ListTurns returns is in non-decreasing (created_at, turn_id) order, also
\* after two turn requests of one session interleaved so that the turn
\* constructed later was stored first.
C33_ListTurnsOrdered ==
    \A t \in Tenants, s \in SessionIds :
        LET rows == list_turns(t, s)
        IN \A i, j \in 1..Len(rows) :
              i < j => (RowBefore(rows[i], rows[j]) \/
                        (/\ rows[i].created_at = rows[j].created_at
                         /\ rows[i].turn_id = rows[j].turn_id))

\* the turn was stored with these very fields
Stored(turn) ==
    \E scope_key \in DOMAIN turns : \E i \in 1..Len(turns[scope_key]) : turns[scope_key][i] = turn

\* C34: after each append_turn(t), ListTurns holds exactly one record with t's
\* turn id, that record is t, and when t was already stored with the same
\* fields the turn list is the one from before the call.
C34_AppendTurnIdempotent ==
    [][\A t \in StoreTurns :
          turns' = append_turn(t) =>
             LET rows == list_turns(t.tenant_id, t.session_id)'
             IN /\ \A i, j \in 1..Len(rows) : rows[i].turn_id = rows[j].turn_id => i = j
                /\ \E i \in 1..Len(rows) : rows[i] = t
                /\ Stored(t) => rows = list_turns(t.tenant_id, t.session_id)]_vars

\* C35: when a call of the synchronous handler to the parser, graph or
\* suggestion service raised (a timeout or a non-2xx response), the handler's
\* response has status 502.
C35_SyncDownstream502 ==
    \A r \in SyncRequests : r.failed # None => r.status_code = 502

\* C36: the turn list from which the synchronous handler took the last-12
\* history already held the handler's new turn, so the new turn is in that list
\* and, being its newest entry, in the history the pipeline receives.
C36_PersistBeforeHistory ==
    \A r \in SyncRequests :
        r.turn # None =>
           /\ \E i \in 1..Len(r.listed) : r.listed[i] = r.turn[1]
           /\ \E i \in 1..Len(r.history) : r.history[i] = r.turn[1]

\* what the claim compares of a parser response: concept names, relation
\* types, coreferences and knowledge gaps, without the generated ids
ParseOutcome(parsed) ==
    [concept_names |-> [i \in 1..Len(parsed.concepts) |-> parsed.concepts[i].canonical_name],
     relation_types |-> [i \in 1..Len(parsed.relations) |-> parsed.relations[i].relation_type],
     coreferences |-> parsed.coreferences,
     knowledge_gaps |-> parsed.knowledge_gaps]

\* C37: any two parse_turn calls with the same request (tenant, session, turn,
\* history) returned the same concept names, relation types, coreferences and
\* knowledge gaps, whatever calls were made in between.
C37_ParseTurnPure ==
    \A i, j \in 1..Len(parse_log) :
        parse_log[i].request = parse_log[j].request =>
            ParseOutcome(parse_log[i].response) = ParseOutcome(parse_log[j].response)

\* C38: the concepts and relations of a snapshot that get_snapshot returned
\* while no upsert call was under way read the same after any later upserts
\* as they did when the call returned.
C38_SnapshotIsCopy ==
    (held_snapshot # None /\ ~held_snapshot[1].upsert_under_way) =>
        held_value = held_snapshot[1].returned

\* the job store holds the job of an ingest payload, for the same tenant,
\* session and turn
HasJob(store, payload) ==
    /\ payload.job_id \in DOMAIN store
    /\ store[payload.job_id].tenant_id = payload.tenant_id
    /\ store[payload.job_id].session_id = payload.session_id
    /\ store[payload.job_id].turn_id = payload.turn.turn_id

\* C39: with the in-memory job store, (a) every turn.ingested message in the
\* bus or in the worker's batch has its job in the job store, (b) when
\* add_turn_async publishes a message its job was already stored with status
\* queued, and (c) the worker never leaves _handle_turn_event for lack of a job.
C39_JobBeforePublish ==
    [][job_store_backend = "memory" =>
         /\ \A m \in Range(topics'[TURN_INGEST_TOPIC]) \cup Range(messages') :
               HasJob(jobs', m.payload)
         /\ published'[TURN_INGEST_TOPIC] > published[TURN_INGEST_TOPIC] =>
               LET m == topics'[TURN_INGEST_TOPIC][Len(topics'[TURN_INGEST_TOPIC])]
               IN HasJob(jobs, m.payload) /\ jobs[m.payload.job_id].status = QUEUED
         /\ (worker_pc = "handle" /\ worker_pc' # "handle") =>
               CurrentJobId \in DOMAIN jobs]_vars

\* C39 witness: the worker is running the pipeline for a published message
\* whose job is processing, while another request has created its job and has
\* not published yet.
C39_Witness ==
    /\ job_store_backend = "memory"
    /\ handling.state = "running"
    /\ HasJob(jobs, handling.message[1].payload)
    /\ jobs[handling.message[1].payload.job_id].status = PROCESSING
    /\ \E request \in BagToSet(creating) :
          /\ request.pc = "publish"
          /\ request.job_id[1] \in DOMAIN jobs
          /\ jobs[request.job_id[1]].status = QUEUED
          /\ \A m \in Range(topics[TURN_INGEST_TOPIC]) \cup Range(messages) :
                m.payload.job_id # request.job_id[1]

\* C40: for every consumer group of a topic, every message of the topic up to
\* the group's read position was returned by a consume call of the group: the
\* group passes over no message, whether published before or after the
\* group's first consume created it.
C40_StreamDeliversAll ==
    \A key \in DOMAIN stream_groups :
        \A i \in 1..stream_groups[key] :
            <<key[2], topics[key[1]][i].message_id>> \in delivered

====
